---- MODULE Spec2Model ----
(***************************************************************************)
(* State-machine model of the AWS data backup pipeline:                    *)
(*   src/src/backup_manager.py   BackupManager  (backup, cleanup, full run) *)
(*   src/src/restore_manager.py  RestoreManager (restore, list, validate)   *)
(*                                                                         *)
(* The provider (EC2, RDS, S3, SNS) owns all durable state; it is modelled  *)
(* by the store variables.  Every public method is one action.  A method's  *)
(* inputs and the set F of provider calls that fail during it are drawn     *)
(* with \E.  A fault is a pair <<api, target>>: the call of `api` on        *)
(* `target` raises.  No call is retried.                                     *)
(***************************************************************************)
EXTENDS Integers, Sequences, FiniteSets, TLC

VARIABLES
    now,             \* datetime.now(), in whole days
    sns_topic_arn,   \* self.sns_topic_arn: TRUE when a topic is configured
    retention_days,  \* self.retention_days
    region,          \* self.region
    ec2_instances,   \* provider: instances, in the provider's listing order
    ec2_images,      \* provider: machine images registered by restores
    ec2_snapshots,   \* provider: EBS snapshots owned by the account
    next_id,         \* provider: next snapshot id to hand out
    rds_instances,   \* provider: DB instances
    rds_snapshots,   \* provider: manual DB snapshots
    s3_buckets,      \* provider: source buckets and their keys
    backup_bucket,   \* provider: the backup destination bucket
    calls,           \* provider calls issued by the last operation, in order
    result,          \* what the last operation returned (or that it raised)
    runs             \* cleanup runs of several orchestrator instances in flight

vars == <<now, sns_topic_arn, retention_days, region, ec2_instances, ec2_images,
          ec2_snapshots,
          next_id, rds_instances, rds_snapshots, s3_buckets, backup_bucket,
          calls, result, runs>>

(***************************************************************************)
(* Bounds of the model.                                                    *)
(***************************************************************************)
MaxTime == 2          \* the clock runs over 0..MaxTime
MaxRetention == 2     \* retention_days is drawn from 1..MaxRetention
MaxArtifacts == 3     \* at most this many backup artifacts at the provider
MaxFullArtifacts == 4 \* the same, where the full pipeline runs
MaxIds == 2           \* explicit id lists have at most this many entries
MaxFaults == 2        \* at most this many provider calls fail in one operation
MaxFullFaults == 1    \* the same, in one run of the full pipeline
MaxRestores == 1      \* at most this many machine images registered by restores
MaxFewArtifacts == 1  \* artifacts at the provider where every operation runs

\* The provider's default page size of the RDS describe calls (MaxRecords,
\* 100 at the provider), scaled down.
DefaultMaxRecords == 2

\* The provider's page size of list_objects_v2 (MaxKeys, 1000 at the
\* provider), scaled down.
MaxKeys == 2

(***************************************************************************)
(* Generic helpers.                                                        *)
(***************************************************************************)
Range(s) == {s[k] : k \in 1..Len(s)}

SeqsUpTo(S, n) == UNION {[1..k -> S] : k \in 0..n}

\* Python's optional list argument: absent (None) or a list.
NoneArg == [present |-> FALSE, value |-> <<>>]
ListArg(s) == [present |-> TRUE, value |-> s]
\* A test that takes every list, the empty one too, for a target list.
Truthy_Present(arg) == arg.present

\* `if instance_ids:` -- None and the empty list are both false.
Truthy(arg) == arg.present /\ Len(arg.value) > 0

(***************************************************************************)
(* Exceptions.  A provider call either returns or raises; the error it     *)
(* raises is a value, NoError meaning that nothing was raised.              *)
(***************************************************************************)
NoError == <<>>
ClientError(api, target) == <<"ClientError", api, target>>
Fails(api, target, F) == <<api, target>> \in F

\* A handler that catches the provider client's own error class only.
ExceptException_ClientErrorOnly(e) == e # NoError /\ e[1] = "ClientError"

\* `except Exception as e:` -- catches every error a provider call raises.
ExceptException(e) == e # NoError

\* A bare `except:` -- catches whatever was raised.
BareExcept(e) == e # NoError

\* One entry of the call log: the call and the error it raised, if any.
Call(api, target, args, exc) ==
    [api |-> api, target |-> target, args |-> args, error |-> exc]

\* A failure record that leaves out the resource it is about.
FailureRecord_Anonymous(key, id, exc) == [error |-> exc]

\* A failure record that names no resource of the account.
FailureRecord_Unknown(key, id, exc) == (key :> "unknown") @@ [error |-> exc]

\* results['failed'].append({'<id key>': <resource id>, 'error': str(e)})
FailureRecord(key, id, exc) == (key :> id) @@ [error |-> exc]

\* A batch-level failure record that carries a resource id.
BatchFailureRecord_Named(exc) == [instance_id |-> "unknown", error |-> exc]

\* results['failed'].append({'error': str(e)}) of the outer except.
BatchFailureRecord(exc) == [error |-> exc]

(***************************************************************************)
(* Tags.  A tag collection is a function from tag keys to values.          *)
(***************************************************************************)
\* any(tag.get('Key') == 'AutomatedBackup' and tag.get('Value') == 'true' ...)
HasAutomatedBackupTag(tags) ==
    "AutomatedBackup" \in DOMAIN tags /\ tags["AutomatedBackup"] = "true"

(***************************************************************************)
(* BackupManager._send_notification                                        *)
(***************************************************************************)
\* A notification method that never publishes.
SendNotification_Never(message, F) == [calls |-> <<>>, exc |-> NoError]

\* A notification method without its try block: a publish failure leaves it.
SendNotification_Propagating(message, F) ==
    IF sns_topic_arn
    THEN LET exc == IF Fails("publish", message.headline, F)
                    THEN ClientError("publish", message.headline) ELSE NoError
         IN [calls |-> <<Call("publish", message.headline, message, exc)>>,
             exc |-> exc]
    ELSE [calls |-> <<>>, exc |-> NoError]

\* Returns [calls, exc]: the calls issued and the error that leaves the
\* method.  A publish failure is caught by `except Exception` and logged.
SendNotification(message, F) ==
    IF sns_topic_arn
    THEN LET exc == IF Fails("publish", message.headline, F)
                    THEN ClientError("publish", message.headline) ELSE NoError
         IN [calls |-> <<Call("publish", message.headline, message, exc)>>,
             exc |-> IF ExceptException(exc) THEN NoError ELSE exc]
    ELSE [calls |-> <<>>, exc |-> NoError]

\* The end of a category backup: the notification closing the outer try
\* block, then the outer `except Exception` and `return results`.
\* body: [success, failed, calls, exc, ...] as the loops left it.
\* An error the outer except catches adds one record without a resource id;
\* one it does not catch leaves the method (raised).
\* message: the notification text built from the two lists.
FinishBackup(body, message, F) ==
    LET n == IF body.exc = NoError
             THEN SendNotification(message, F)
             ELSE [calls |-> <<>>, exc |-> body.exc]
    IN [results |-> [success |-> body.success,
                     failed |-> IF ExceptException(n.exc)
                                THEN Append(body.failed, BatchFailureRecord(n.exc))
                                ELSE body.failed],
        calls |-> body.calls \o n.calls,
        raised |-> (n.exc # NoError /\ ~ExceptException(n.exc))]

(***************************************************************************)
(* BackupManager.backup_ec2_instances                                      *)
(***************************************************************************)
KnownInstanceIds == {ec2_instances[k].InstanceId : k \in 1..Len(ec2_instances)}

\* self.ec2.describe_instances(...): explicit ids, or the running instances.
\* The provider rejects the whole call when an id is unknown.
DescribeInstances(instance_ids, F) ==
    IF Fails("describe_instances", "all", F)
    THEN [exc |-> ClientError("describe_instances", "all"), Instances |-> <<>>]
    ELSE IF Truthy(instance_ids)
    THEN IF Range(instance_ids.value) \subseteq KnownInstanceIds
         THEN [exc |-> NoError,
               Instances |-> SelectSeq(ec2_instances,
                   LAMBDA i : i.InstanceId \in Range(instance_ids.value))]
         ELSE [exc |-> <<"InvalidInstanceID.NotFound", "describe_instances", "all">>,
               Instances |-> <<>>]
    ELSE [exc |-> NoError,
          Instances |-> SelectSeq(ec2_instances, LAMBDA i : i.State = "running")]

\* The tags passed in TagSpecifications of create_snapshot.
Ec2SnapshotTags(instance_id, volume_id) ==
    [Name |-> <<"backup", instance_id, volume_id>>,
     InstanceId |-> instance_id,
     BackupDate |-> now,
     AutomatedBackup |-> "true"]

\* The loop over instance.get('BlockDeviceMappings', []) inside the inner try.
\* acc: [success, calls, created, exc]; stops at the first create_snapshot
\* that raises.
RECURSIVE SnapshotVolumes(_, _, _, _)
SnapshotVolumes(instance, k, acc, F) ==
    IF k > Len(instance.BlockDeviceMappings) THEN acc
    ELSE LET volume_id == instance.BlockDeviceMappings[k]
             tags == Ec2SnapshotTags(instance.InstanceId, volume_id)
             args == [VolumeId |-> volume_id, Tags |-> tags]
         IN IF Fails("create_snapshot", volume_id, F)
            THEN [acc EXCEPT
                    !.calls = Append(@, Call("create_snapshot", volume_id, args,
                                             ClientError("create_snapshot", volume_id))),
                    !.exc = ClientError("create_snapshot", volume_id)]
            ELSE LET snapshot_id == next_id + Len(acc.created)
                     snapshot == [SnapshotId |-> snapshot_id,
                                  VolumeId |-> volume_id,
                                  StartTime |-> now,
                                  State |-> "pending",
                                  Tags |-> tags]
                 IN SnapshotVolumes(instance, k + 1,
                      [acc EXCEPT
                         !.calls = Append(@, Call("create_snapshot", volume_id, args, NoError)),
                         !.created = Append(@, snapshot),
                         !.success = Append(@, [instance_id |-> instance.InstanceId,
                                                volume_id |-> volume_id,
                                                snapshot_id |-> snapshot_id])],
                      F)

\* The loop over reservations/instances with its inner try/except.
\* acc: [success, failed, calls, created, exc]; an error the inner except
\* does not catch ends the loop.
RECURSIVE BackupInstances(_, _, _, _)
BackupInstances(instances, k, acc, F) ==
    IF k > Len(instances) \/ acc.exc # NoError THEN acc
    ELSE LET instance == instances[k]
             r == SnapshotVolumes(instance, 1,
                     [success |-> acc.success, calls |-> acc.calls,
                      created |-> acc.created, exc |-> NoError], F)
             caught == ExceptException(r.exc)
         IN BackupInstances(instances, k + 1,
               [success |-> r.success,
                failed |-> IF caught
                           THEN Append(acc.failed,
                                    FailureRecord("instance_id", instance.InstanceId, r.exc))
                           ELSE acc.failed,
                calls |-> r.calls, created |-> r.created,
                exc |-> IF caught THEN NoError ELSE r.exc], F)

Ec2Message(results) ==
    [headline |-> "EC2 Backup Complete",
     successful |-> Len(results.success), failed |-> Len(results.failed)]

\* The parameters of the describe_instances call: the ids given, or the
\* filter on running instances.
DescribeInstancesParams(instance_ids) ==
    IF Truthy(instance_ids) THEN [InstanceIds |-> instance_ids.value]
    ELSE [Filters |-> "running"]

\* The whole method: returns [results, calls, created, raised].
backup_ec2_instances(instance_ids, F) ==
    LET d == DescribeInstances(instance_ids, F)
        start == [success |-> <<>>, failed |-> <<>>, created |-> <<>>,
                  calls |-> <<Call("describe_instances", "all",
                                  DescribeInstancesParams(instance_ids), d.exc)>>,
                  exc |-> d.exc]
        body == BackupInstances(d.Instances, 1, start, F)
        r == FinishBackup(body, Ec2Message(body), F)
    IN [results |-> r.results, calls |-> r.calls, raised |-> r.raised,
        created |-> body.created]

(***************************************************************************)
(* BackupManager.backup_rds_databases                                      *)
(***************************************************************************)
KnownDbIds == {rds_instances[k].DBInstanceIdentifier : k \in 1..Len(rds_instances)}

\* A provider listing that is not followed past its first response: the
\* first page of at most `size` records.
FirstPage(records, size) ==
    SubSeq(records, 1, IF Len(records) < size THEN Len(records) ELSE size)

\* self.rds.describe_db_instances(DBInstanceIdentifier=db_id)
DescribeDbInstance(db_id, F) ==
    IF Fails("describe_db_instances", db_id, F)
    THEN [exc |-> ClientError("describe_db_instances", db_id), DBInstances |-> <<>>]
    ELSE IF db_id \in KnownDbIds
    THEN [exc |-> NoError,
          DBInstances |-> SelectSeq(rds_instances,
                              LAMBDA d : d.DBInstanceIdentifier = db_id)]
    ELSE [exc |-> <<"DBInstanceNotFound", "describe_db_instances", db_id>>,
          DBInstances |-> <<>>]

\* self.rds.describe_db_instances(): one call, its response read once.
DescribeDbInstances(F) ==
    IF Fails("describe_db_instances", "all", F)
    THEN [exc |-> ClientError("describe_db_instances", "all"), DBInstances |-> <<>>]
    ELSE [exc |-> NoError, DBInstances |-> FirstPage(rds_instances, DefaultMaxRecords)]

\* The lookup loop over db_identifiers with its own try/except.
\* acc: [databases, failed, calls, exc].
RECURSIVE LookupDatabases(_, _, _, _)
LookupDatabases(db_identifiers, k, acc, F) ==
    IF k > Len(db_identifiers) \/ acc.exc # NoError THEN acc
    ELSE LET db_id == db_identifiers[k]
             d == DescribeDbInstance(db_id, F)
             call == Call("describe_db_instances", db_id, db_id, d.exc)
         IN LookupDatabases(db_identifiers, k + 1,
              IF d.exc = NoError
              THEN [acc EXCEPT !.calls = Append(@, call),
                               !.databases = @ \o d.DBInstances]
              ELSE IF ExceptException(d.exc)
              THEN [acc EXCEPT !.calls = Append(@, call),
                               !.failed = Append(@,
                                   FailureRecord("db_identifier", db_id, d.exc))]
              ELSE [acc EXCEPT !.calls = Append(@, call), !.exc = d.exc],
              F)

\* The tags passed to create_db_snapshot.
RdsSnapshotTags(db_identifier) ==
    [BackupDate |-> now, AutomatedBackup |-> "true", SourceDB |-> db_identifier]

\* A snapshot identifier that leaves out the database it is taken of.
RdsSnapshotId_Shared(db_identifier) == <<"snapshot", "backup", now>>

\* f"{db_identifier}-backup-{datetime.now().strftime('%Y%m%d%H%M%S')}"
RdsSnapshotId(db_identifier) == <<db_identifier, "backup", now>>

\* self.rds.create_db_snapshot(...): the provider refuses an identifier that
\* is already taken.
CreateDbSnapshot(snapshot_id, db_identifier, created, F) ==
    IF Fails("create_db_snapshot", db_identifier, F)
    THEN ClientError("create_db_snapshot", db_identifier)
    ELSE IF \E k \in 1..Len(rds_snapshots) :
                rds_snapshots[k].DBSnapshotIdentifier = snapshot_id
    THEN <<"DBSnapshotAlreadyExists", "create_db_snapshot", db_identifier>>
    ELSE IF \E k \in 1..Len(created) : created[k].DBSnapshotIdentifier = snapshot_id
    THEN <<"DBSnapshotAlreadyExists", "create_db_snapshot", db_identifier>>
    ELSE NoError

\* The loop over databases with its inner try/except.
\* acc: [success, failed, calls, created, exc].
RECURSIVE BackupDatabases(_, _, _, _)
BackupDatabases(databases, k, acc, F) ==
    IF k > Len(databases) \/ acc.exc # NoError THEN acc
    ELSE LET db_identifier == databases[k].DBInstanceIdentifier
             snapshot_id == RdsSnapshotId(db_identifier)
             tags == RdsSnapshotTags(db_identifier)
             exc == CreateDbSnapshot(snapshot_id, db_identifier, acc.created, F)
             call == Call("create_db_snapshot", db_identifier,
                          [DBSnapshotIdentifier |-> snapshot_id, Tags |-> tags], exc)
         IN BackupDatabases(databases, k + 1,
              IF exc = NoError
              THEN [acc EXCEPT
                      !.calls = Append(@, call),
                      !.created = Append(@, [DBSnapshotIdentifier |-> snapshot_id,
                                             DBInstanceIdentifier |-> db_identifier,
                                             SnapshotCreateTime |-> now,
                                             Status |-> "creating",
                                             TagList |-> tags]),
                      !.success = Append(@, [db_identifier |-> db_identifier,
                                             snapshot_id |-> snapshot_id])]
              ELSE IF ExceptException(exc)
              THEN [acc EXCEPT !.calls = Append(@, call),
                               !.failed = Append(@,
                                   FailureRecord("db_identifier", db_identifier, exc))]
              ELSE [acc EXCEPT !.calls = Append(@, call), !.exc = exc],
              F)

RdsMessage(results) ==
    [headline |-> "RDS Backup Complete",
     successful |-> Len(results.success), failed |-> Len(results.failed)]

\* The whole method: returns [results, calls, created, raised].
backup_rds_databases(db_identifiers, F) ==
    LET l == IF Truthy(db_identifiers)
             THEN LookupDatabases(db_identifiers.value, 1,
                     [databases |-> <<>>, failed |-> <<>>, calls |-> <<>>,
                      exc |-> NoError], F)
             ELSE LET d == DescribeDbInstances(F)
                  IN [databases |-> d.DBInstances, failed |-> <<>>,
                      calls |-> <<Call("describe_db_instances", "all", "all", d.exc)>>,
                      exc |-> d.exc]
        body == BackupDatabases(l.databases, 1,
                   [success |-> <<>>, failed |-> l.failed, calls |-> l.calls,
                    created |-> <<>>, exc |-> l.exc], F)
        r == FinishBackup(body, RdsMessage(body), F)
    IN [results |-> r.results, calls |-> r.calls, raised |-> r.raised,
        created |-> body.created]

(***************************************************************************)
(* BackupManager._ensure_backup_bucket                                     *)
(***************************************************************************)
BackupBucketName == "backup-bucket"

\* lifecycle_config: GLACIER at day 7, DEEP_ARCHIVE at day 30, expiration at
\* retention_days.
LifecycleConfig ==
    [Transitions |-> <<[Days |-> 7, StorageClass |-> "GLACIER"],
                       [Days |-> 30, StorageClass |-> "DEEP_ARCHIVE"]>>,
     Expiration |-> retention_days]

\* The statements of the bare `except:` branch, in order; the first one that
\* raises ends the method and its error leaves it.  Step k of 3.
\* create_bucket for a bucket the account already owns succeeds in us-east-1
\* and is rejected in every other region.
\* b: the backup bucket; acc: [bucket, calls, exc].
RECURSIVE ConfigureBackupBucket(_, _, _)
ConfigureBackupBucket(k, acc, F) ==
    LET api == <<"create_bucket", "put_bucket_versioning",
                 "put_bucket_lifecycle_configuration">>
        owned == <<"BucketAlreadyOwnedByYou", "create_bucket", BackupBucketName>>
    IN IF k > Len(api) THEN acc
       ELSE IF Fails(api[k], BackupBucketName, F)
       THEN [acc EXCEPT
               !.calls = Append(@, Call(api[k], BackupBucketName, region,
                                        ClientError(api[k], BackupBucketName))),
               !.exc = ClientError(api[k], BackupBucketName)]
       ELSE IF k = 1 /\ acc.bucket.exists /\ region # "us-east-1"
       THEN [acc EXCEPT
               !.calls = Append(@, Call(api[k], BackupBucketName, region, owned)),
               !.exc = owned]
       ELSE ConfigureBackupBucket(k + 1,
               [acc EXCEPT
                  !.calls = Append(@, Call(api[k], BackupBucketName,
                                           IF k = 3 THEN LifecycleConfig ELSE region,
                                           NoError)),
                  !.bucket = CASE k = 1 -> [@ EXCEPT !.exists = TRUE]
                               [] k = 2 -> [@ EXCEPT !.versioning = TRUE]
                               [] OTHER -> [@ EXCEPT !.lifecycle = LifecycleConfig]],
               F)

\* Returns [bucket, calls, exc]: head_bucket, and on any error of it the
\* creation and configuration of the bucket.
EnsureBackupBucket(F) ==
    LET head_exc == IF Fails("head_bucket", BackupBucketName, F)
                    THEN ClientError("head_bucket", BackupBucketName)
                    ELSE IF ~backup_bucket.exists
                    THEN <<"404", "head_bucket", BackupBucketName>>
                    ELSE NoError
        head == Call("head_bucket", BackupBucketName, BackupBucketName, head_exc)
    IN IF ~BareExcept(head_exc)
       THEN [bucket |-> backup_bucket, calls |-> <<head>>, exc |-> head_exc]
       ELSE ConfigureBackupBucket(1,
               [bucket |-> backup_bucket, calls |-> <<head>>, exc |-> NoError], F)

(***************************************************************************)
(* BackupManager.backup_s3_buckets                                         *)
(***************************************************************************)
KnownBucketNames == {s3_buckets[k].Name : k \in 1..Len(s3_buckets)}

BucketIndex(bucket_name) ==
    CHOOSE k \in 1..Len(s3_buckets) : s3_buckets[k].Name = bucket_name

\* self.s3.list_buckets(): every bucket of the account, the backup bucket
\* among them once it exists.
ListBuckets(bucket) ==
    [k \in 1..Len(s3_buckets) |-> [Name |-> s3_buckets[k].Name]]
    \o (IF bucket.exists THEN <<[Name |-> BackupBucketName]>> ELSE <<>>)

\* f"s3-backups/{bucket_name}/{datetime.now().strftime('%Y/%m/%d')}/"
BackupPrefix(bucket_name) == <<"s3-backups", bucket_name, ToString(now)>>

\* The tag set given in Tagging= of copy_object.
S3CopyTags(bucket_name) == [BackupDate |-> now, SourceBucket |-> bucket_name]

\* Number of list_objects_v2 pages the paginator fetches for n keys.
PageCount(n) == IF n = 0 THEN 1 ELSE (n + MaxKeys - 1) \div MaxKeys

\* The paginated copy loop of one bucket, key by key; a page is fetched when
\* its first key is reached.  acc: [count, calls, bucket, exc].
RECURSIVE CopyObjects(_, _, _, _, _)
CopyObjects(bucket_name, keys, k, acc, F) ==
    LET page == ((k - 1) \div MaxKeys) + 1
        first_of_page == ((k - 1) % MaxKeys) = 0
        fetch == first_of_page /\ page <= PageCount(Len(keys))
        list_exc == IF ~fetch THEN NoError
                    ELSE IF Fails("list_objects_v2", <<bucket_name, page>>, F)
                    THEN ClientError("list_objects_v2", <<bucket_name, page>>)
                    ELSE IF bucket_name \notin KnownBucketNames
                    THEN <<"NoSuchBucket", "list_objects_v2", bucket_name>>
                    ELSE NoError
        listed == IF fetch
                  THEN Append(acc.calls, Call("list_objects_v2", <<bucket_name, page>>,
                                              bucket_name, list_exc))
                  ELSE acc.calls
    IN IF list_exc # NoError THEN [acc EXCEPT !.calls = listed, !.exc = list_exc]
       ELSE IF k > Len(keys) THEN [acc EXCEPT !.calls = listed]
       ELSE LET key == keys[k]
                copy_key == BackupPrefix(bucket_name) \o key
                tags == S3CopyTags(bucket_name)
                args == [Key |-> copy_key, TaggingDirective |-> "REPLACE", Tagging |-> tags]
            IN IF Fails("copy_object", <<bucket_name, key>>, F)
               THEN [acc EXCEPT
                       !.calls = Append(listed, Call("copy_object", <<bucket_name, key>>, args,
                                          ClientError("copy_object", <<bucket_name, key>>))),
                       !.exc = ClientError("copy_object", <<bucket_name, key>>)]
               ELSE CopyObjects(bucket_name, keys, k + 1,
                      [acc EXCEPT
                         !.calls = Append(listed, Call("copy_object", <<bucket_name, key>>,
                                                       args, NoError)),
                         !.count = @ + 1,
                         !.bucket = [@ EXCEPT !.objects =
                             {o \in @ : o.Key # copy_key}
                                 \cup {[Key |-> copy_key, Tags |-> tags]}]],
                      F)

\* The loop over buckets with its inner try/except.
\* acc: [success, failed, calls, bucket, exc].
RECURSIVE BackupBuckets(_, _, _, _)
BackupBuckets(buckets, k, acc, F) ==
    IF k > Len(buckets) \/ acc.exc # NoError THEN acc
    ELSE LET bucket_name == buckets[k].Name
             keys == IF bucket_name \in KnownBucketNames
                     THEN s3_buckets[BucketIndex(bucket_name)].Keys ELSE <<>>
             r == CopyObjects(bucket_name, keys, 1,
                     [count |-> 0, calls |-> acc.calls, bucket |-> acc.bucket,
                      exc |-> NoError], F)
         IN BackupBuckets(buckets, k + 1,
              IF r.exc = NoError
              THEN [acc EXCEPT !.calls = r.calls, !.bucket = r.bucket,
                               !.success = Append(@,
                                   [bucket_name |-> bucket_name,
                                    objects_backed_up |-> r.count,
                                    backup_location |-> <<BackupBucketName>>
                                        \o BackupPrefix(bucket_name)])]
              ELSE IF ExceptException(r.exc)
              THEN [acc EXCEPT !.calls = r.calls, !.bucket = r.bucket,
                               !.failed = Append(@,
                                   FailureRecord("bucket_name", bucket_name, r.exc))]
              ELSE [acc EXCEPT !.calls = r.calls, !.bucket = r.bucket, !.exc = r.exc],
              F)

S3Message(results) ==
    [headline |-> "S3 Backup Complete",
     successful |-> Len(results.success), failed |-> Len(results.failed)]

\* The whole method: returns [results, calls, bucket, raised].
backup_s3_buckets(bucket_names, F) ==
    LET e == EnsureBackupBucket(F)
        explicit == Truthy(bucket_names)
        list_exc == IF e.exc # NoError THEN e.exc
                    ELSE IF ~explicit /\ Fails("list_buckets", "all", F)
                    THEN ClientError("list_buckets", "all") ELSE NoError
        listed == IF e.exc # NoError \/ explicit THEN e.calls
                  ELSE Append(e.calls, Call("list_buckets", "all", "all", list_exc))
        buckets == IF list_exc # NoError THEN <<>>
                   ELSE IF explicit
                   THEN [k \in 1..Len(bucket_names.value) |->
                             [Name |-> bucket_names.value[k]]]
                   ELSE SelectSeq(ListBuckets(e.bucket),
                                  LAMBDA b : b.Name # BackupBucketName)
        body == BackupBuckets(buckets, 1,
                   [success |-> <<>>, failed |-> <<>>, calls |-> listed,
                    bucket |-> e.bucket, exc |-> list_exc], F)
        r == FinishBackup(body, S3Message(body), F)
    IN [results |-> r.results, calls |-> r.calls, raised |-> r.raised,
        bucket |-> body.bucket]

(***************************************************************************)
(* BackupManager.cleanup_old_backups                                       *)
(***************************************************************************)
\* cutoff_date = datetime.now() - timedelta(days=self.retention_days)
CutoffDate == now - retention_days

\* The condition of the `if` in both loops: a creation time strictly before
\* the cutoff and the AutomatedBackup=true tag.
CleanupEligible(created_at, tags) ==
    created_at < CutoffDate /\ HasAutomatedBackupTag(tags)

\* The loop over snapshots['Snapshots'].  A delete_snapshot that raises ends
\* the loop; its error goes to the method's except.
\* acc: [deleted, calls, store, exc].
RECURSIVE CleanupEc2(_, _, _, _)
CleanupEc2(listed, k, acc, F) ==
    IF k > Len(listed) \/ acc.exc # NoError THEN acc
    ELSE LET snapshot == listed[k]
         IN IF ~CleanupEligible(snapshot.StartTime, snapshot.Tags)
            THEN CleanupEc2(listed, k + 1, acc, F)
            ELSE LET exc == IF Fails("delete_snapshot", snapshot.SnapshotId, F)
                            THEN ClientError("delete_snapshot", snapshot.SnapshotId)
                            ELSE NoError
                     call == Call("delete_snapshot", snapshot.SnapshotId,
                                  snapshot.SnapshotId, exc)
                 IN CleanupEc2(listed, k + 1,
                      IF exc # NoError
                      THEN [acc EXCEPT !.calls = Append(@, call), !.exc = exc]
                      ELSE [acc EXCEPT
                              !.calls = Append(@, call),
                              !.deleted = @ + 1,
                              !.store = SelectSeq(@,
                                  LAMBDA x : x.SnapshotId # snapshot.SnapshotId)],
                      F)

\* The loop over rds_snapshots['DBSnapshots'], of the same shape.
RECURSIVE CleanupRds(_, _, _, _)
CleanupRds(listed, k, acc, F) ==
    IF k > Len(listed) \/ acc.exc # NoError THEN acc
    ELSE LET snapshot == listed[k]
         IN IF ~CleanupEligible(snapshot.SnapshotCreateTime, snapshot.TagList)
            THEN CleanupRds(listed, k + 1, acc, F)
            ELSE LET id == snapshot.DBSnapshotIdentifier
                     exc == IF Fails("delete_db_snapshot", id, F)
                            THEN ClientError("delete_db_snapshot", id) ELSE NoError
                     call == Call("delete_db_snapshot", id, id, exc)
                 IN CleanupRds(listed, k + 1,
                      IF exc # NoError
                      THEN [acc EXCEPT !.calls = Append(@, call), !.exc = exc]
                      ELSE [acc EXCEPT
                              !.calls = Append(@, call),
                              !.deleted = @ + 1,
                              !.store = SelectSeq(@,
                                  LAMBDA x : x.DBSnapshotIdentifier # id)],
                      F)

\* self.ec2.describe_snapshots(OwnerIds=['self']): one call, its response
\* read once; without MaxResults the provider returns every snapshot.
DescribeSnapshots(snapshots, F) ==
    IF Fails("describe_snapshots", "self", F)
    THEN [exc |-> ClientError("describe_snapshots", "self"), Snapshots |-> <<>>]
    ELSE [exc |-> NoError, Snapshots |-> snapshots]

\* self.rds.describe_db_snapshots(SnapshotType='manual'): one call, its
\* response read once; the provider returns the first page.
DescribeDbSnapshots(db_snapshots, F) ==
    IF Fails("describe_db_snapshots", "manual", F)
    THEN [exc |-> ClientError("describe_db_snapshots", "manual"), DBSnapshots |-> <<>>]
    ELSE [exc |-> NoError, DBSnapshots |-> FirstPage(db_snapshots, DefaultMaxRecords)]

\* A result that reports the snapshots deleted as objects deleted too.
CleanupResults_CountingObjects(ec2_deleted, rds_deleted) ==
    [ec2_snapshots_deleted |-> ec2_deleted,
     rds_snapshots_deleted |-> rds_deleted,
     s3_objects_deleted |-> ec2_deleted + rds_deleted]

\* The results dict: the two counters the loops increment, and the object
\* counter that nothing increments.
CleanupResults(ec2_deleted, rds_deleted) ==
    [ec2_snapshots_deleted |-> ec2_deleted,
     rds_snapshots_deleted |-> rds_deleted,
     s3_objects_deleted |-> 0]

\* The whole method, on the stores as they are when it is called.
\* Returns [results, calls, ec2_snapshots, rds_snapshots, raised].
cleanup_old_backups(snapshots, db_snapshots, F) ==
    LET d1 == DescribeSnapshots(snapshots, F)
        e == CleanupEc2(d1.Snapshots, 1,
                [deleted |-> 0, store |-> snapshots, exc |-> d1.exc,
                 calls |-> <<Call("describe_snapshots", "self", "self", d1.exc)>>], F)
        d2 == IF e.exc # NoError
              THEN [exc |-> e.exc, DBSnapshots |-> <<>>]
              ELSE DescribeDbSnapshots(db_snapshots, F)
        r == CleanupRds(d2.DBSnapshots, 1,
                [deleted |-> 0, store |-> db_snapshots, exc |-> d2.exc,
                 calls |-> IF e.exc # NoError THEN e.calls
                           ELSE Append(e.calls, Call("describe_db_snapshots", "manual",
                                                     "manual", d2.exc))], F)
    IN [results |-> CleanupResults(e.deleted, r.deleted),
        calls |-> r.calls,
        ec2_snapshots |-> e.store,
        rds_snapshots |-> r.store,
        raised |-> (r.exc # NoError /\ ~ExceptException(r.exc))]

(***************************************************************************)
(* BackupManager.run_full_backup                                           *)
(***************************************************************************)
FullMessage(summary) ==
    [headline |-> "Full Backup Pipeline Complete",
     successful |-> summary.total_successful_backups,
     failed |-> summary.total_failed_backups,
     status |-> summary.backup_status]

\* A summary whose status looks at the successes instead of the failures.
Summary_BySuccess(ec2_results, rds_results, s3_results) ==
    LET total_success == Len(ec2_results.success) + Len(rds_results.success)
                         + Len(s3_results.success)
        total_failed == Len(ec2_results.failed) + Len(rds_results.failed)
                        + Len(s3_results.failed)
    IN [total_successful_backups |-> total_success,
        total_failed_backups |-> total_failed,
        backup_status |-> IF total_success > 0 THEN "SUCCESS" ELSE "PARTIAL_FAILURE"]

\* results['summary']
Summary(ec2_results, rds_results, s3_results) ==
    LET total_success == Len(ec2_results.success) + Len(rds_results.success)
                         + Len(s3_results.success)
        total_failed == Len(ec2_results.failed) + Len(rds_results.failed)
                        + Len(s3_results.failed)
    IN [total_successful_backups |-> total_success,
        total_failed_backups |-> total_failed,
        backup_status |-> IF total_failed = 0 THEN "SUCCESS" ELSE "PARTIAL_FAILURE"]

\* The whole method.  The four operations are the values of a dict display,
\* evaluated in order; an exception leaving one of them would leave
\* run_full_backup at that point.  Marker entries in the call log record where
\* each operation starts.
\* Returns [results, calls, ec2_created, rds_created, bucket, ec2_snapshots,
\* rds_snapshots, raised].
\* The consolidated notification and the return value, from what the four
\* steps gave.  A step that raised cuts the method short: the later steps
\* are not reached and their effects are not taken.
FullReturn(ec2, rds, s3, cleanup, reached, summary, F) ==
    LET mark(name) == <<Call("invoke", name, name, NoError)>>
        done(name) == <<Call("return", name, name, NoError)>>
        n == IF reached[5] THEN SendNotification(FullMessage(summary), F)
             ELSE [calls |-> <<>>, exc |-> NoError]
    IN [results |-> [ec2_results |-> ec2.results,
                     rds_results |-> rds.results,
                     s3_results |-> s3.results,
                     cleanup_results |-> cleanup.results,
                     summary |-> summary],
        calls |-> mark("backup_ec2_instances") \o ec2.calls
                  \o (IF reached[2]
                      THEN done("backup_ec2_instances")
                           \o mark("backup_rds_databases") \o rds.calls ELSE <<>>)
                  \o (IF reached[3]
                      THEN done("backup_rds_databases")
                           \o mark("backup_s3_buckets") \o s3.calls ELSE <<>>)
                  \o (IF reached[4]
                      THEN done("backup_s3_buckets")
                           \o mark("cleanup_old_backups") \o cleanup.calls ELSE <<>>)
                  \o (IF reached[5] THEN done("cleanup_old_backups") ELSE <<>>)
                  \o n.calls,
        ec2_snapshots |-> IF reached[4] THEN cleanup.ec2_snapshots
                          ELSE ec2_snapshots \o ec2.created,
        rds_snapshots |-> IF reached[4] THEN cleanup.rds_snapshots
                          ELSE IF reached[2] THEN rds_snapshots \o rds.created
                          ELSE rds_snapshots,
        created |-> Len(ec2.created),
        bucket |-> IF reached[3] THEN s3.bucket ELSE backup_bucket,
        raised |-> (~reached[5] \/ n.exc # NoError)]

\* reached[k]: the k-th step of the method is reached (5: the notification).
FullReached(ec2, rds, s3, cleanup) ==
    <<TRUE,
      ~ec2.raised,
      ~ec2.raised /\ ~rds.raised,
      ~ec2.raised /\ ~rds.raised /\ ~s3.raised,
      ~ec2.raised /\ ~rds.raised /\ ~s3.raised /\ ~cleanup.raised>>

FullCleanup(ec2, rds, s3, cleanup, F) ==
    FullReturn(ec2, rds, s3, cleanup, FullReached(ec2, rds, s3, cleanup),
               Summary(ec2.results, rds.results, s3.results), F)

FullBackups(ec2, rds, s3, F) ==
    FullCleanup(ec2, rds, s3,
                cleanup_old_backups(ec2_snapshots \o ec2.created,
                                    rds_snapshots \o rds.created, F), F)

\* The whole method: the three category backups on all resources, then the
\* cleanup on the snapshots as the backups left them, then the notification.
run_full_backup(F) ==
    FullBackups(backup_ec2_instances(NoneArg, F),
                backup_rds_databases(NoneArg, F),
                backup_s3_buckets(NoneArg, F), F)

(***************************************************************************)
(* RestoreManager.  Every method is one try block with `except Exception`  *)
(* around it.                                                              *)
(***************************************************************************)
\* The end of a RestoreManager method that an error cut short: the handler's
\* return value when `except Exception` catches it.
RestoreFailure(exc, record) ==
    [results |-> IF ExceptException(exc) THEN record ELSE <<>>,
     raised |-> ~ExceptException(exc)]

SnapshotIds == {ec2_snapshots[k].SnapshotId : k \in 1..Len(ec2_snapshots)}

DbSnapshotIds == {rds_snapshots[k].DBSnapshotIdentifier : k \in 1..Len(rds_snapshots)}

\* self.ec2.describe_snapshots(SnapshotIds=[snapshot_id]); the provider
\* answers an id it does not know with an error.
DescribeSnapshot(snapshot_id, F) ==
    IF Fails("describe_snapshots", snapshot_id, F)
    THEN [exc |-> ClientError("describe_snapshots", snapshot_id), Snapshots |-> <<>>]
    ELSE IF snapshot_id \notin SnapshotIds
    THEN [exc |-> <<"InvalidSnapshot.NotFound", "describe_snapshots", snapshot_id>>,
          Snapshots |-> <<>>]
    ELSE [exc |-> NoError,
          Snapshots |-> SelectSeq(ec2_snapshots, LAMBDA x : x.SnapshotId = snapshot_id)]

\* self.rds.describe_db_snapshots(DBSnapshotIdentifier=snapshot_id)
DescribeDbSnapshot(snapshot_id, F) ==
    IF Fails("describe_db_snapshots", snapshot_id, F)
    THEN [exc |-> ClientError("describe_db_snapshots", snapshot_id), DBSnapshots |-> <<>>]
    ELSE IF snapshot_id \notin DbSnapshotIds
    THEN [exc |-> <<"DBSnapshotNotFound", "describe_db_snapshots", snapshot_id>>,
          DBSnapshots |-> <<>>]
    ELSE [exc |-> NoError,
          DBSnapshots |-> SelectSeq(rds_snapshots,
                                    LAMBDA x : x.DBSnapshotIdentifier = snapshot_id)]

(***************************************************************************)
(* RestoreManager.restore_ec2_from_snapshot                                *)
(***************************************************************************)
\* describe_snapshots, register_image, the image_available waiter and
\* run_instances, in order; the first error ends the try block.  The provider
\* refuses an image name already in use and a snapshot not yet completed.
\* The optional placement parameters only add entries to run_params.
\* Returns [results, calls, images, instances, raised].
\* A restore that launches its instance whether or not a step failed.
InstancesAfterRestore_Always(exc, instance) == Append(ec2_instances, instance)

\* The instances of the account once the method has returned: run_instances
\* is the last provider call and adds one instance when no step raised.
InstancesAfterRestore(exc, instance) ==
    IF exc = NoError THEN Append(ec2_instances, instance) ELSE ec2_instances

restore_ec2_from_snapshot(snapshot_id, F) ==
    LET d == DescribeSnapshot(snapshot_id, F)
        ami_name == <<"restore-ami", snapshot_id, now>>
        ami_id == "ami-" \o ToString(Len(ec2_images) + 1)
        reg_exc == IF Fails("register_image", snapshot_id, F)
                   THEN ClientError("register_image", snapshot_id)
                   ELSE IF \E k \in 1..Len(ec2_images) : ec2_images[k].Name = ami_name
                   THEN <<"InvalidAMIName.Duplicate", "register_image", snapshot_id>>
                   ELSE IF d.Snapshots[1].State # "completed"
                   THEN <<"IncorrectState", "register_image", snapshot_id>>
                   ELSE NoError
        wait_exc == IF Fails("image_available", snapshot_id, F)
                    THEN <<"WaiterError", "image_available", snapshot_id>> ELSE NoError
        run_exc == IF Fails("run_instances", snapshot_id, F)
                   THEN ClientError("run_instances", snapshot_id) ELSE NoError
        instance_id == "i-restored-" \o ToString(Len(ec2_instances) + 1)
        run_params == [ImageId |-> ami_id,
                       Tags |-> [Name |-> <<"restored-from", snapshot_id>>,
                                 RestoredFrom |-> snapshot_id,
                                 RestoreDate |-> now]]
        c1 == <<Call("describe_snapshots", snapshot_id, snapshot_id, d.exc)>>
        c2 == Append(c1, Call("register_image", snapshot_id, ami_name, reg_exc))
        c3 == Append(c2, Call("image_available", snapshot_id, ami_id, wait_exc))
        c4 == Append(c3, Call("run_instances", snapshot_id, run_params, run_exc))
        images == Append(ec2_images, [ImageId |-> ami_id, Name |-> ami_name,
                                      SnapshotId |-> snapshot_id])
        restored == [InstanceId |-> instance_id, State |-> "pending",
                     BlockDeviceMappings |-> <<"vol-" \o ami_id>>]
        failure(exc) == RestoreFailure(exc, [success |-> FALSE, error |-> exc,
                                             snapshot_id |-> snapshot_id])
        end(log, exc, registered) ==
            [results |-> failure(exc).results, raised |-> failure(exc).raised,
             calls |-> log,
             images |-> IF registered THEN images ELSE ec2_images,
             instances |-> InstancesAfterRestore(exc, restored)]
    IN IF d.exc # NoError THEN end(c1, d.exc, FALSE)
       ELSE IF reg_exc # NoError THEN end(c2, reg_exc, FALSE)
       ELSE IF wait_exc # NoError THEN end(c3, wait_exc, TRUE)
       ELSE IF run_exc # NoError THEN end(c4, run_exc, TRUE)
       ELSE [results |-> [success |-> TRUE, instance_id |-> instance_id,
                          ami_id |-> ami_id, snapshot_id |-> snapshot_id,
                          restore_timestamp |-> now],
             raised |-> FALSE,
             calls |-> c4,
             images |-> images,
             instances |-> InstancesAfterRestore(NoError, restored)]

(***************************************************************************)
(* RestoreManager.restore_rds_from_snapshot                                *)
(***************************************************************************)
\* describe_db_snapshots, then restore_db_instance_from_db_snapshot; the
\* provider refuses an identifier already taken and a snapshot that is not
\* available.  Returns [results, calls, databases, raised].
restore_rds_from_snapshot(snapshot_id, new_db_identifier, F) ==
    LET d == DescribeDbSnapshot(snapshot_id, F)
        api == "restore_db_instance_from_db_snapshot"
        exc == IF Fails(api, snapshot_id, F) THEN ClientError(api, snapshot_id)
               ELSE IF new_db_identifier \in KnownDbIds
               THEN <<"DBInstanceAlreadyExists", api, new_db_identifier>>
               ELSE IF d.DBSnapshots[1].Status # "available"
               THEN <<"InvalidDBSnapshotState", api, snapshot_id>>
               ELSE NoError
        args == [DBInstanceIdentifier |-> new_db_identifier,
                 DBSnapshotIdentifier |-> snapshot_id,
                 Tags |-> [RestoredFrom |-> snapshot_id, RestoreDate |-> now,
                           OriginalDB |-> d.DBSnapshots[1].DBInstanceIdentifier]]
        c1 == <<Call("describe_db_snapshots", snapshot_id, snapshot_id, d.exc)>>
        failure(e) == RestoreFailure(e, [success |-> FALSE, error |-> e,
                                         snapshot_id |-> snapshot_id])
    IN IF d.exc # NoError
       THEN [results |-> failure(d.exc).results, raised |-> failure(d.exc).raised,
             calls |-> c1, databases |-> rds_instances]
       ELSE IF exc # NoError
       THEN [results |-> failure(exc).results, raised |-> failure(exc).raised,
             calls |-> Append(c1, Call(api, snapshot_id, args, exc)),
             databases |-> rds_instances]
       ELSE [results |-> [success |-> TRUE, db_identifier |-> new_db_identifier,
                          snapshot_id |-> snapshot_id, status |-> "restoring",
                          restore_timestamp |-> now],
             raised |-> FALSE,
             calls |-> Append(c1, Call(api, snapshot_id, args, NoError)),
             databases |-> Append(rds_instances,
                                  [DBInstanceIdentifier |-> new_db_identifier])]

(***************************************************************************)
(* RestoreManager.restore_s3_objects                                       *)
(***************************************************************************)
\* key.startswith(prefix), on keys written as paths.
StartsWith(key, prefix) ==
    Len(key) >= Len(prefix) /\ SubSeq(key, 1, Len(prefix)) = prefix

\* The members of a set in the order a listing returns them; nothing the
\* operations compute depends on which order it is.
SeqOf(S) == CHOOSE q \in [1..Cardinality(S) -> S] : Range(q) = S

\* A listing that stops after the first page.
KeysUnder_FirstPage(bucket_name, prefix) ==
    FirstPage(IF bucket_name = BackupBucketName
              THEN SeqOf({o.Key : o \in {b \in backup_bucket.objects :
                                            StartsWith(b.Key, prefix)}})
              ELSE <<>>,
              MaxKeys)

\* The keys list_objects_v2 returns for Bucket= and Prefix=, over all pages.
KeysUnder(bucket_name, prefix) ==
    IF bucket_name = BackupBucketName
    THEN SeqOf({o.Key : o \in {b \in backup_bucket.objects : StartsWith(b.Key, prefix)}})
    ELSE IF bucket_name \in KnownBucketNames
    THEN SelectSeq(s3_buckets[BucketIndex(bucket_name)].Keys,
                   LAMBDA key : StartsWith(key, prefix))
    ELSE <<>>

BucketExists(bucket_name) ==
    \/ bucket_name \in KnownBucketNames
    \/ bucket_name = BackupBucketName /\ backup_bucket.exists

\* The paginated loop with its inner try/except: a copy that fails is
\* counted and the loop goes on; a page that cannot be fetched ends the try
\* block.  acc: [restored, failed, calls, buckets, exc].
RECURSIVE RestoreObjects(_, _, _, _, _, _, _, _)
RestoreObjects(source, backup_prefix, target_bucket, target_prefix, keys, k, acc, F) ==
    LET page == ((k - 1) \div MaxKeys) + 1
        first_of_page == ((k - 1) % MaxKeys) = 0
        fetch == first_of_page /\ page <= PageCount(Len(keys))
        list_exc == IF ~fetch THEN NoError
                    ELSE IF Fails("list_objects_v2", <<source, page>>, F)
                    THEN ClientError("list_objects_v2", <<source, page>>)
                    ELSE IF ~BucketExists(source)
                    THEN <<"NoSuchBucket", "list_objects_v2", source>>
                    ELSE NoError
        listed == IF fetch
                  THEN Append(acc.calls, Call("list_objects_v2", <<source, page>>,
                                              backup_prefix, list_exc))
                  ELSE acc.calls
    IN IF list_exc # NoError THEN [acc EXCEPT !.calls = listed, !.exc = list_exc]
       ELSE IF k > Len(keys) THEN [acc EXCEPT !.calls = listed]
       ELSE LET key == keys[k]
                relative_key == SubSeq(key, Len(backup_prefix) + 1, Len(key))
                target_key == IF target_prefix # <<>>
                              THEN target_prefix \o relative_key ELSE relative_key
                exc == IF Fails("copy_object", <<source, key>>, F)
                       THEN ClientError("copy_object", <<source, key>>)
                       ELSE IF target_bucket \notin KnownBucketNames
                       THEN <<"NoSuchBucket", "copy_object", target_bucket>>
                       ELSE NoError
                args == [Bucket |-> target_bucket, Key |-> target_key,
                         TaggingDirective |-> "REPLACE",
                         Tagging |-> [RestoredFrom |-> source, RestoreDate |-> now]]
                call == Call("copy_object", <<source, key>>, args, exc)
                t == BucketIndex(target_bucket)
            IN RestoreObjects(source, backup_prefix, target_bucket, target_prefix,
                 keys, k + 1,
                 IF exc = NoError
                 THEN [acc EXCEPT
                         !.calls = Append(listed, call),
                         !.restored = @ + 1,
                         !.buckets = [@ EXCEPT ![t].Keys =
                             IF target_key \in Range(@) THEN @
                             ELSE Append(@, target_key)]]
                 ELSE IF ExceptException(exc)
                 THEN [acc EXCEPT !.calls = Append(listed, call), !.failed = @ + 1]
                 ELSE [acc EXCEPT !.calls = Append(listed, call), !.exc = exc],
                 F)

\* The whole method.  Returns [results, calls, buckets, raised].
restore_s3_objects(source, backup_prefix, target_bucket, target_prefix, F) ==
    LET r == RestoreObjects(source, backup_prefix, target_bucket, target_prefix,
                            KeysUnder(source, backup_prefix), 1,
                            [restored |-> 0, failed |-> 0, calls |-> <<>>,
                             buckets |-> s3_buckets, exc |-> NoError], F)
        failure == RestoreFailure(r.exc, [success |-> FALSE, error |-> r.exc])
    IN [results |-> IF r.exc # NoError THEN failure.results
                    ELSE [success |-> TRUE,
                          restored_objects |-> r.restored,
                          failed_objects |-> r.failed,
                          target_bucket |-> target_bucket,
                          restore_timestamp |-> now],
        raised |-> (r.exc # NoError /\ failure.raised),
        calls |-> r.calls,
        buckets |-> r.buckets]

(***************************************************************************)
(* RestoreManager.list_available_backups                                   *)
(***************************************************************************)
\* sorted(entries, key=..., reverse=True): descending and stable.
RECURSIVE SortedDescending(_, _)
SortedDescending(entries, key) ==
    IF entries = <<>> THEN <<>>
    ELSE LET n == Len(entries)
             rest == SortedDescending(SubSeq(entries, 1, n - 1), key)
             x == entries[n]
             before == SelectSeq(rest, LAMBDA y : y[key] >= x[key])
             after == SelectSeq(rest, LAMBDA y : y[key] < x[key])
         IN before \o <<x>> \o after

Ec2BackupEntry(snapshot) ==
    [snapshot_id |-> snapshot.SnapshotId,
     start_time |-> snapshot.StartTime,
     state |-> snapshot.State]

RdsBackupEntry(snapshot) ==
    [snapshot_id |-> snapshot.DBSnapshotIdentifier,
     db_instance_id |-> snapshot.DBInstanceIdentifier,
     snapshot_create_time |-> snapshot.SnapshotCreateTime,
     status |-> snapshot.Status]

\* The CommonPrefixes of list_objects_v2(Prefix='s3-backups/', Delimiter='/'):
\* one per source bucket that has a copy, the first page of them.
CommonPrefixes ==
    FirstPage(SeqOf({SubSeq(o.Key, 1, 2) :
                        o \in {b \in backup_bucket.objects :
                                  StartsWith(b.Key, <<"s3-backups">>) /\ Len(b.Key) > 2}}),
              MaxKeys)

\* The whole method.  bucket_env: whether BACKUP_BUCKET is set where it runs.
\* Returns [results, calls, raised].
list_available_backups(resource_type, bucket_env, F) ==
    LET want_ec2 == resource_type \in {"ec2", "all"}
        want_rds == resource_type \in {"rds", "all"}
        want_s3 == resource_type \in {"s3", "all"} /\ bucket_env
        d1 == DescribeSnapshots(ec2_snapshots, F)
        d2 == DescribeDbSnapshots(rds_snapshots, F)
        tagged1 == SelectSeq(d1.Snapshots, LAMBDA x : HasAutomatedBackupTag(x.Tags))
        tagged2 == SelectSeq(d2.DBSnapshots, LAMBDA x : HasAutomatedBackupTag(x.TagList))
        ec2_backups == SortedDescending(
                          [k \in 1..Len(tagged1) |-> Ec2BackupEntry(tagged1[k])],
                          "start_time")
        rds_backups == SortedDescending(
                          [k \in 1..Len(tagged2) |-> RdsBackupEntry(tagged2[k])],
                          "snapshot_create_time")
        s3_exc == IF Fails("list_objects_v2", <<BackupBucketName, "prefixes">>, F)
                  THEN ClientError("list_objects_v2", <<BackupBucketName, "prefixes">>)
                  ELSE IF ~backup_bucket.exists
                  THEN <<"NoSuchBucket", "list_objects_v2", BackupBucketName>>
                  ELSE NoError
        s3_backups == IF s3_exc # NoError THEN <<>>
                      ELSE [k \in 1..Len(CommonPrefixes) |->
                               [backup_prefix |-> CommonPrefixes[k],
                                bucket |-> BackupBucketName]]
        c1 == IF want_ec2
              THEN <<Call("describe_snapshots", "self", "self", d1.exc)>> ELSE <<>>
        exc1 == IF want_ec2 THEN d1.exc ELSE NoError
        c2 == IF exc1 = NoError /\ want_rds
              THEN Append(c1, Call("describe_db_snapshots", "manual", "manual", d2.exc))
              ELSE c1
        exc2 == IF exc1 = NoError /\ want_rds THEN d2.exc ELSE exc1
        c3 == IF exc2 = NoError /\ want_s3
              THEN Append(c2, Call("list_objects_v2", <<BackupBucketName, "prefixes">>,
                                   <<"s3-backups">>, s3_exc))
              ELSE c2
        \* an error of the prefix listing that its own handler does not catch
        exc3 == IF exc2 = NoError /\ want_s3 /\ ~ExceptException(s3_exc)
                THEN s3_exc ELSE exc2
        backups == (IF want_ec2 THEN "ec2" :> ec2_backups ELSE <<>>)
                   @@ (IF want_rds THEN "rds" :> rds_backups ELSE <<>>)
                   @@ (IF want_s3 THEN "s3" :> s3_backups ELSE <<>>)
        failure == RestoreFailure(exc3, [success |-> FALSE, error |-> exc3])
    IN [results |-> IF exc3 # NoError THEN failure.results
                    ELSE [success |-> TRUE, backups |-> backups, timestamp |-> now],
        raised |-> (exc3 # NoError /\ failure.raised),
        calls |-> c3]

(***************************************************************************)
(* RestoreManager.validate_backup_integrity                                *)
(***************************************************************************)
\* A validation that takes a snapshot still being taken for a ready one.
SnapshotValid_Pending(snapshot) == snapshot.State \in {"completed", "pending"}

\* snapshot['State'] == 'completed'
SnapshotValid(snapshot) == snapshot.State = "completed"

\* snapshot['Status'] == 'available'
DbSnapshotValid(snapshot) == snapshot.Status = "available"

\* A failure record that drops the provider's message.
ValidationFailure_NoMessage(exc) == [valid |-> FALSE, error |-> NoError]

\* {'valid': False, 'error': str(e)}
ValidationFailure(exc) == [valid |-> FALSE, error |-> exc]

\* Returns [results, calls, raised].
validate_backup_integrity(backup_type, backup_id, F) ==
    LET d1 == DescribeSnapshot(backup_id, F)
        d2 == DescribeDbSnapshot(backup_id, F)
        failure(exc) == RestoreFailure(exc, ValidationFailure(exc))
    IN CASE backup_type = "ec2" ->
              [results |-> IF d1.exc # NoError THEN failure(d1.exc).results
                           ELSE [valid |-> SnapshotValid(d1.Snapshots[1]),
                                 state |-> d1.Snapshots[1].State,
                                 progress |-> "",
                                 encrypted |-> FALSE],
               raised |-> (d1.exc # NoError /\ failure(d1.exc).raised),
               calls |-> <<Call("describe_snapshots", backup_id, backup_id, d1.exc)>>]
         [] backup_type = "rds" ->
              [results |-> IF d2.exc # NoError THEN failure(d2.exc).results
                           ELSE [valid |-> DbSnapshotValid(d2.DBSnapshots[1]),
                                 status |-> d2.DBSnapshots[1].Status,
                                 percent_progress |-> 0,
                                 encrypted |-> FALSE],
               raised |-> (d2.exc # NoError /\ failure(d2.exc).raised),
               calls |-> <<Call("describe_db_snapshots", backup_id, backup_id, d2.exc)>>]
         [] OTHER ->
              [results |-> [valid |-> FALSE, error |-> "Unsupported backup type"],
               raised |-> FALSE,
               calls |-> <<>>]

(***************************************************************************)
(* The provider's inventory and the environment.                           *)
(***************************************************************************)
Fleet ==
    <<[InstanceId |-> "i1", State |-> "running", BlockDeviceMappings |-> <<"v1", "v2">>],
      [InstanceId |-> "i2", State |-> "running", BlockDeviceMappings |-> <<"v3">>],
      [InstanceId |-> "i3", State |-> "stopped", BlockDeviceMappings |-> <<>>]>>

Databases ==
    <<[DBInstanceIdentifier |-> "db1"], [DBInstanceIdentifier |-> "db2"],
      [DBInstanceIdentifier |-> "db3"]>>

Buckets ==
    <<[Name |-> "b1", Keys |-> <<<<"k1">>, <<"k2">>, <<"k3">>>>],
      [Name |-> "b2", Keys |-> <<<<"k4">>>>]>>

\* Ids a caller may pass: None, and lists over ids of the account's own
\* resources and one id the provider does not know.
InstanceIdArgs == {NoneArg} \cup
    {ListArg(l) : l \in SeqsUpTo((KnownInstanceIds \cap {"i1", "i2", "i3"}) \cup {"i9"},
                                 MaxIds)}
DbIdArgs == {NoneArg} \cup
    {ListArg(l) : l \in SeqsUpTo((KnownDbIds \cap {"db1", "db3"}) \cup {"db9"}, MaxIds)}
BucketNameArgs == {NoneArg} \cup
    {ListArg(l) : l \in SeqsUpTo(KnownBucketNames \cup {"b9"}, MaxIds)}

\* The sets of at most n faults among the fault points P.
RECURSIVE FaultSets(_, _)
FaultSets(P, n) ==
    IF n = 0 THEN {{}}
    ELSE LET S == FaultSets(P, n - 1) IN S \cup {s \cup {f} : s \in S, f \in P}

\* The provider calls an operation may issue on the given input: the fault
\* points of that operation.
PublishPoint(headline) ==
    IF sns_topic_arn THEN {<<"publish", headline>>} ELSE {}

Ec2FaultPoints(instance_ids) ==
    {<<"describe_instances", "all">>} \cup PublishPoint("EC2 Backup Complete")
    \cup UNION {{<<"create_snapshot", v>> : v \in Range(i.BlockDeviceMappings)} :
                   i \in Range(DescribeInstances(instance_ids, {}).Instances)}

RdsFaultPoints(db_identifiers) ==
    PublishPoint("RDS Backup Complete")
    \cup (IF Truthy(db_identifiers)
          THEN {<<"describe_db_instances", t>> : t \in Range(db_identifiers.value)}
               \cup {<<"create_db_snapshot", t>> :
                        t \in Range(db_identifiers.value) \cap KnownDbIds}
          ELSE {<<"describe_db_instances", "all">>}
               \cup {<<"create_db_snapshot", d.DBInstanceIdentifier>> :
                        d \in Range(DescribeDbInstances({}).DBInstances)})

BucketFaultPoints(bucket_name) ==
    IF bucket_name \notin KnownBucketNames
    THEN {<<"list_objects_v2", <<bucket_name, 1>>>>}
    ELSE LET keys == s3_buckets[BucketIndex(bucket_name)].Keys
         IN {<<"list_objects_v2", <<bucket_name, p>>>> : p \in 1..PageCount(Len(keys))}
            \cup {<<"copy_object", <<bucket_name, key>>>> : key \in Range(keys)}

S3FaultPoints(bucket_names) ==
    PublishPoint("S3 Backup Complete")
    \cup {<<a, BackupBucketName>> :
            a \in {"head_bucket", "create_bucket", "put_bucket_versioning",
                   "put_bucket_lifecycle_configuration"}}
    \cup (IF Truthy(bucket_names)
          THEN UNION {BucketFaultPoints(n) : n \in Range(bucket_names.value)}
          ELSE {<<"list_buckets", "all">>}
               \cup UNION {BucketFaultPoints(n) : n \in KnownBucketNames})

CleanupFaultPoints ==
    {<<"describe_snapshots", "self">>, <<"describe_db_snapshots", "manual">>}
    \cup {<<"delete_snapshot", ec2_snapshots[k].SnapshotId>> : k \in 1..Len(ec2_snapshots)}
    \cup {<<"delete_db_snapshot", rds_snapshots[k].DBSnapshotIdentifier>> :
             k \in 1..Len(rds_snapshots)}

FullFaultPoints ==
    Ec2FaultPoints(NoneArg) \cup RdsFaultPoints(NoneArg) \cup S3FaultPoints(NoneArg)
    \cup CleanupFaultPoints \cup PublishPoint("Full Backup Pipeline Complete")

\* Number of backup artifacts held by the given stores.
Artifacts(snapshots, db_snapshots, bucket) ==
    Len(snapshots) + Len(db_snapshots) + Cardinality(bucket.objects)

NoResult == [op |-> "none", args |-> NoneArg, value |-> <<>>, raised |-> FALSE]

\* A small account with one resource of every category.
PipelineAccount == <<SubSeq(Fleet, 2, 2), SubSeq(Databases, 1, 1), SubSeq(Buckets, 2, 2)>>

\* The accounts the model runs against: one holding a resource of every
\* category, and one per category holding only that category's resources.
Accounts ==
    {PipelineAccount, <<Fleet, <<>>, <<>>>>,
     <<<<>>, Databases, <<>>>>, <<<<>>, <<>>, Buckets>>}

\* The orchestrator instances that run cleanup at the same time.
Instances == {"A", "B"}

\* An instance that is not running cleanup.  pc: the provider call the run
\* issues next; listed: the response it is iterating over, from index k on;
\* ec2_deleted, rds_deleted: the deletions it has counted.
NoRun == [pc |-> "idle", listed |-> <<>>, k |-> 1,
          ec2_deleted |-> <<>>, rds_deleted |-> <<>>]

\* No operation is running and the caller holds no result.
Idle == result = NoResult

Init ==
    /\ now = 0
    /\ sns_topic_arn \in BOOLEAN
    /\ retention_days \in 1..MaxRetention
    /\ region \in {"us-east-1", "eu-west-1"}
    /\ \E account \in Accounts :
          /\ ec2_instances = account[1]
          /\ rds_instances = account[2]
          /\ s3_buckets = account[3]
    /\ ec2_images = <<>>
    /\ ec2_snapshots = <<>>
    /\ next_id = 1
    /\ rds_snapshots = <<>>
    /\ backup_bucket = [exists |-> FALSE, versioning |-> FALSE,
                        lifecycle |-> <<>>, objects |-> {}]
    /\ calls = <<>>
    /\ result = NoResult
    /\ runs = [i \in Instances |-> NoRun]

config == <<sns_topic_arn, retention_days, region>>
inventory == <<ec2_instances, ec2_images, rds_instances, s3_buckets>>

\* A day passes.
Tick ==
    /\ Idle
    /\ now < MaxTime
    /\ now' = now + 1
    /\ UNCHANGED <<config, runs, inventory, ec2_snapshots, next_id, rds_snapshots,
                   backup_bucket, calls, result>>

\* The caller drops the result it was returned; no result record outlives
\* the call that built it.
Discard ==
    /\ ~Idle
    /\ calls' = <<>>
    /\ result' = NoResult
    /\ UNCHANGED <<now, config, runs, inventory, ec2_snapshots, next_id, rds_snapshots,
                   backup_bucket>>

(***************************************************************************)
(* The environment: snapshots that other tools and people create in the    *)
(* same account, with whatever tags they choose.                           *)
(***************************************************************************)
\* No tag, the backup tag with another value, and the backup tag together
\* with a BackupDate that says nothing true about the creation time.
ForeignTags ==
    {<<>>,
     [AutomatedBackup |-> "false"],
     [AutomatedBackup |-> "true", BackupDate |-> 0],
     [AutomatedBackup |-> "true", BackupDate |-> MaxTime]}

\* ec2.create_snapshot(...) followed by ec2.create_tags(...), by someone else.
CreateSnapshotElsewhere ==
    /\ Idle
    /\ Artifacts(ec2_snapshots, rds_snapshots, backup_bucket) < MaxArtifacts
    /\ \E tags \in ForeignTags :
          ec2_snapshots' = Append(ec2_snapshots,
                                  [SnapshotId |-> next_id,
                                   VolumeId |-> "v0",
                                   StartTime |-> now,
                                   State |-> "pending",
                                   Tags |-> tags])
    /\ next_id' = next_id + 1
    /\ UNCHANGED <<now, config, runs, inventory, rds_snapshots, backup_bucket, calls, result>>

\* rds.create_db_snapshot(...), by someone else: a manual snapshot under the
\* first free identifier.
CreateDbSnapshotElsewhere ==
    /\ Idle
    /\ Artifacts(ec2_snapshots, rds_snapshots, backup_bucket) < MaxArtifacts
    /\ \E tags \in ForeignTags :
          LET taken == {rds_snapshots[k].DBSnapshotIdentifier : k \in 1..Len(rds_snapshots)}
              free == {n \in 1..MaxArtifacts : <<"db0", "manual", n>> \notin taken}
              n == CHOOSE m \in free : \A o \in free : m <= o
          IN rds_snapshots' = Append(rds_snapshots,
                                     [DBSnapshotIdentifier |-> <<"db0", "manual", n>>,
                                      DBInstanceIdentifier |-> "db0",
                                      SnapshotCreateTime |-> now,
                                      Status |-> "creating",
                                      TagList |-> tags])
    /\ UNCHANGED <<now, config, runs, inventory, ec2_snapshots, next_id, backup_bucket,
                   calls, result>>

(***************************************************************************)
(* The operations of BackupManager, one action each.  An operation is      *)
(* called once the previous one has returned and its result was consumed.  *)
(***************************************************************************)
BackupEc2Instances ==
    /\ Idle
    /\ \E instance_ids \in InstanceIdArgs : \E F \in FaultSets(Ec2FaultPoints(instance_ids), MaxFaults) :
        \E r \in {backup_ec2_instances(instance_ids, F)} :
           /\ Artifacts(ec2_snapshots \o r.created, rds_snapshots, backup_bucket)
                 <= MaxArtifacts
           /\ ec2_snapshots' = ec2_snapshots \o r.created
           /\ next_id' = next_id + Len(r.created)
           /\ calls' = r.calls
           /\ result' = [op |-> "backup_ec2_instances", args |-> instance_ids,
                         value |-> r.results, raised |-> r.raised]
           /\ UNCHANGED <<now, config, runs, inventory, rds_snapshots, backup_bucket>>

BackupRdsDatabases ==
    /\ Idle
    /\ \E db_identifiers \in DbIdArgs : \E F \in FaultSets(RdsFaultPoints(db_identifiers), MaxFaults) :
        \E r \in {backup_rds_databases(db_identifiers, F)} :
           /\ Artifacts(ec2_snapshots, rds_snapshots \o r.created, backup_bucket)
                 <= MaxArtifacts
           /\ rds_snapshots' = rds_snapshots \o r.created
           /\ calls' = r.calls
           /\ result' = [op |-> "backup_rds_databases", args |-> db_identifiers,
                         value |-> r.results, raised |-> r.raised]
           /\ UNCHANGED <<now, config, runs, inventory, ec2_snapshots, next_id, backup_bucket>>

BackupS3Buckets ==
    /\ Idle
    /\ \E bucket_names \in BucketNameArgs : \E F \in FaultSets(S3FaultPoints(bucket_names), MaxFaults) :
        \E r \in {backup_s3_buckets(bucket_names, F)} :
           /\ Artifacts(ec2_snapshots, rds_snapshots, r.bucket) <= MaxArtifacts
           /\ backup_bucket' = r.bucket
           /\ calls' = r.calls
           /\ result' = [op |-> "backup_s3_buckets", args |-> bucket_names,
                         value |-> r.results, raised |-> r.raised]
           /\ UNCHANGED <<now, config, runs, inventory, ec2_snapshots, next_id, rds_snapshots>>

CleanupOldBackups ==
    /\ Idle
    /\ \E F \in FaultSets(CleanupFaultPoints, MaxFaults) :
        \E r \in {cleanup_old_backups(ec2_snapshots, rds_snapshots, F)} :
           /\ ec2_snapshots' = r.ec2_snapshots
           /\ rds_snapshots' = r.rds_snapshots
           /\ calls' = r.calls
           /\ result' = [op |-> "cleanup_old_backups", args |-> NoneArg,
                         value |-> r.results, raised |-> r.raised]
           /\ UNCHANGED <<now, config, runs, inventory, next_id, backup_bucket>>

RunFullBackupUnder(faults) ==
    /\ Idle
    /\ \E F \in FaultSets(FullFaultPoints, faults) :
        \E r \in {run_full_backup(F)} :
           /\ Artifacts(r.ec2_snapshots, r.rds_snapshots, r.bucket) <= MaxFullArtifacts
           /\ ec2_snapshots' = r.ec2_snapshots
           /\ next_id' = next_id + r.created
           /\ rds_snapshots' = r.rds_snapshots
           /\ backup_bucket' = r.bucket
           /\ calls' = r.calls
           /\ result' = [op |-> "run_full_backup", args |-> NoneArg,
                         value |-> r.results, raised |-> r.raised]
           /\ UNCHANGED <<now, config, runs, inventory>>

RunFullBackup == RunFullBackupUnder(MaxFullFaults)

(***************************************************************************)
(* lambda_handler: the entry point that builds a BackupManager and runs    *)
(* the operation the event asks for.                                       *)
(***************************************************************************)
\* The events: no backup_type key, or one of these values.
Events ==
    {NoneArg} \cup {ListArg(t) : t \in {"ec2", "rds", "s3", "cleanup", "full", "weekly"}}

\* A handler whose default, for an event without backup_type, is cleanup.
BackupType_DefaultCleanup(event) == IF event.present THEN event.value ELSE "cleanup"

\* backup_type = event.get('backup_type', 'full')
BackupType(event) == IF event.present THEN event.value ELSE "full"

\* BackupManager() asks the provider for the account id while it builds the
\* default bucket name; that call is the one provider call of construction.
ConstructFaultPoint == {<<"get_caller_identity", "sts">>}

Construct(F) ==
    LET exc == IF Fails("get_caller_identity", "sts", F)
               THEN ClientError("get_caller_identity", "sts") ELSE NoError
    IN [exc |-> exc,
        calls |-> <<Call("get_caller_identity", "sts", "sts", exc)>>]

LambdaFaultPoints(backup_type) ==
    ConstructFaultPoint \cup
    CASE backup_type = "ec2" -> Ec2FaultPoints(NoneArg)
      [] backup_type = "rds" -> RdsFaultPoints(NoneArg)
      [] backup_type = "s3" -> S3FaultPoints(NoneArg)
      [] backup_type = "cleanup" -> CleanupFaultPoints
      [] OTHER -> FullFaultPoints

\* json.dumps(results, default=str)
JsonDumps(value) == <<"json", value>>

\* What the handler returns and what its call did to the provider.
Handled(statusCode, body, calls_, snapshots, created, db_snapshots, bucket) ==
    [results |-> [statusCode |-> statusCode, body |-> JsonDumps(body)],
     calls |-> calls_, raised |-> FALSE,
     ec2_snapshots |-> snapshots, created |-> created,
     rds_snapshots |-> db_snapshots, bucket |-> bucket]

\* return {'statusCode': 200, ...} after the method returned, or the except
\* branch when it raised.
HandlerReturn(c, r, snapshots, created, db_snapshots, bucket) ==
    Handled(IF r.raised THEN 500 ELSE 200,
            IF r.raised THEN [error |-> r.results] ELSE r.results,
            c.calls \o r.calls, snapshots, created, db_snapshots, bucket)

HandleEc2(c, r) ==
    HandlerReturn(c, r, ec2_snapshots \o r.created, Len(r.created),
                  rds_snapshots, backup_bucket)
HandleRds(c, r) ==
    HandlerReturn(c, r, ec2_snapshots, 0, rds_snapshots \o r.created, backup_bucket)
HandleS3(c, r) ==
    HandlerReturn(c, r, ec2_snapshots, 0, rds_snapshots, r.bucket)
HandleCleanup(c, r) ==
    HandlerReturn(c, r, r.ec2_snapshots, 0, r.rds_snapshots, backup_bucket)
HandleFull(c, r) ==
    HandlerReturn(c, r, r.ec2_snapshots, r.created, r.rds_snapshots, r.bucket)

HandleConstructed(c, backup_type, F) ==
    CASE backup_type = "ec2" -> HandleEc2(c, backup_ec2_instances(NoneArg, F))
      [] backup_type = "rds" -> HandleRds(c, backup_rds_databases(NoneArg, F))
      [] backup_type = "s3" -> HandleS3(c, backup_s3_buckets(NoneArg, F))
      [] backup_type = "cleanup" ->
            HandleCleanup(c, cleanup_old_backups(ec2_snapshots, rds_snapshots, F))
      [] OTHER -> HandleFull(c, run_full_backup(F))

HandleEvent(c, event, F) ==
    IF c.exc # NoError
    THEN Handled(500, [error |-> c.exc], c.calls,
                 ec2_snapshots, 0, rds_snapshots, backup_bucket)
    ELSE HandleConstructed(c, BackupType(event), F)

lambda_handler(event, F) == HandleEvent(Construct(F), event, F)

\* The faults a handler call may meet: at most one inside the full pipeline.
LambdaFaults(backup_type) ==
    IF backup_type \in {"ec2", "rds", "s3", "cleanup"} THEN MaxFaults ELSE MaxFullFaults

LambdaHandler ==
    /\ Idle
    /\ \E event \in Events :
        \E F \in FaultSets(LambdaFaultPoints(BackupType(event)),
                          LambdaFaults(BackupType(event))) :
        \E r \in {lambda_handler(event, F)} :
           /\ Artifacts(r.ec2_snapshots, r.rds_snapshots, r.bucket) <= MaxArtifacts
           /\ ec2_snapshots' = r.ec2_snapshots
           /\ next_id' = next_id + r.created
           /\ rds_snapshots' = r.rds_snapshots
           /\ backup_bucket' = r.bucket
           /\ calls' = r.calls
           /\ result' = [op |-> "lambda_handler", args |-> event,
                         value |-> r.results, raised |-> r.raised]
           /\ UNCHANGED <<now, config, runs, inventory>>

(***************************************************************************)
(* The operations of RestoreManager, one action each.                      *)
(***************************************************************************)
\* Snapshot ids a caller may pass: those that exist and one that does not.
SnapshotIdArgs == SnapshotIds \cup {0}
DbSnapshotIdArgs == DbSnapshotIds \cup {<<"db9", "backup", 0>>}

RestoreEc2FaultPoints(snapshot_id) ==
    {<<api, snapshot_id>> :
        api \in {"describe_snapshots", "register_image", "image_available",
                 "run_instances"}}

RestoreRdsFaultPoints(snapshot_id) ==
    {<<api, snapshot_id>> :
        api \in {"describe_db_snapshots", "restore_db_instance_from_db_snapshot"}}

RestoreS3FaultPoints(source, backup_prefix) ==
    LET keys == KeysUnder(source, backup_prefix)
    IN {<<"list_objects_v2", <<source, page>>>> : page \in 1..PageCount(Len(keys))}
       \cup {<<"copy_object", <<source, keys[k]>>>> : k \in 1..Len(keys)}

ListFaultPoints ==
    {<<"describe_snapshots", "self">>, <<"describe_db_snapshots", "manual">>,
     <<"list_objects_v2", <<BackupBucketName, "prefixes">>>>}

RestoreEc2FromSnapshot ==
    /\ Idle
    /\ Len(ec2_images) < MaxRestores
    /\ \E snapshot_id \in SnapshotIdArgs :
       \E F \in FaultSets(RestoreEc2FaultPoints(snapshot_id), MaxFaults) :
        \E r \in {restore_ec2_from_snapshot(snapshot_id, F)} :
           /\ ec2_images' = r.images
           /\ ec2_instances' = r.instances
           /\ calls' = r.calls
           /\ result' = [op |-> "restore_ec2_from_snapshot", args |-> snapshot_id,
                         value |-> r.results, raised |-> r.raised]
           /\ UNCHANGED <<now, config, runs, rds_instances, s3_buckets, ec2_snapshots,
                          next_id, rds_snapshots, backup_bucket>>

RestoreRdsFromSnapshot ==
    /\ Idle
    /\ \E snapshot_id \in DbSnapshotIdArgs, new_db_identifier \in {"db1", "db-restored"} :
       \E F \in FaultSets(RestoreRdsFaultPoints(snapshot_id), MaxFaults) :
        \E r \in {restore_rds_from_snapshot(snapshot_id, new_db_identifier, F)} :
           /\ rds_instances' = r.databases
           /\ calls' = r.calls
           /\ result' = [op |-> "restore_rds_from_snapshot",
                         args |-> <<snapshot_id, new_db_identifier>>,
                         value |-> r.results, raised |-> r.raised]
           /\ UNCHANGED <<now, config, runs, ec2_instances, ec2_images, s3_buckets,
                          ec2_snapshots, next_id, rds_snapshots, backup_bucket>>

RestoreS3Objects ==
    /\ Idle
    /\ \E source \in {BackupBucketName, "b9"},
          backup_prefix \in {<<"s3-backups">>, BackupPrefix("b2")},
          target_bucket \in {"b2", "b9"},
          target_prefix \in {<<>>, <<"restored">>} :
       \E F \in FaultSets(RestoreS3FaultPoints(source, backup_prefix), MaxFaults) :
        \E r \in {restore_s3_objects(source, backup_prefix, target_bucket,
                                     target_prefix, F)} :
           /\ s3_buckets' = r.buckets
           /\ calls' = r.calls
           /\ result' = [op |-> "restore_s3_objects",
                         args |-> <<source, backup_prefix, target_bucket, target_prefix>>,
                         value |-> r.results, raised |-> r.raised]
           /\ UNCHANGED <<now, config, runs, ec2_instances, ec2_images, rds_instances,
                          ec2_snapshots, next_id, rds_snapshots, backup_bucket>>

ListAvailableBackups ==
    /\ Idle
    /\ \E resource_type \in {"ec2", "rds", "s3", "all", "efs"}, bucket_env \in BOOLEAN :
       \E F \in FaultSets(ListFaultPoints, MaxFaults) :
        \E r \in {list_available_backups(resource_type, bucket_env, F)} :
           /\ calls' = r.calls
           /\ result' = [op |-> "list_available_backups",
                         args |-> <<resource_type, bucket_env>>,
                         value |-> r.results, raised |-> r.raised]
           /\ UNCHANGED <<now, config, runs, inventory, ec2_snapshots, next_id,
                          rds_snapshots, backup_bucket>>

ValidateBackupIntegrity ==
    /\ Idle
    /\ \E backup_type \in {"ec2", "rds", "s3"} :
       \E backup_id \in (CASE backup_type = "ec2" -> SnapshotIdArgs
                           [] backup_type = "rds" -> DbSnapshotIdArgs
                           [] OTHER -> {0}) :
       \E F \in SUBSET {<<IF backup_type = "rds" THEN "describe_db_snapshots"
                          ELSE "describe_snapshots", backup_id>>} :
        \E r \in {validate_backup_integrity(backup_type, backup_id, F)} :
           /\ calls' = r.calls
           /\ result' = [op |-> "validate_backup_integrity",
                         args |-> <<backup_type, backup_id>>,
                         value |-> r.results, raised |-> r.raised]
           /\ UNCHANGED <<now, config, runs, inventory, ec2_snapshots, next_id,
                          rds_snapshots, backup_bucket>>

\* The provider finishes the snapshots it was still taking.
SnapshotsComplete ==
    /\ Idle
    /\ \/ \E k \in 1..Len(ec2_snapshots) : ec2_snapshots[k].State # "completed"
       \/ \E k \in 1..Len(rds_snapshots) : rds_snapshots[k].Status # "available"
    /\ ec2_snapshots' = [k \in 1..Len(ec2_snapshots) |->
                            [ec2_snapshots[k] EXCEPT !.State = "completed"]]
    /\ rds_snapshots' = [k \in 1..Len(rds_snapshots) |->
                            [rds_snapshots[k] EXCEPT !.Status = "available"]]
    /\ UNCHANGED <<now, config, runs, inventory, next_id, backup_bucket, calls, result>>

(***************************************************************************)
(* cleanup_old_backups run by two orchestrator instances at once: every     *)
(* provider call of a run is one step, and the steps of the runs interleave. *)
(* Only the provider's own errors occur: a delete of a snapshot that is     *)
(* gone raises, and the method's except ends the run.                       *)
(***************************************************************************)
RunsIdle == \A i \in Instances : runs[i].pc = "idle"
RunsDone == \A i \in Instances : runs[i].pc = "done"

\* The index, from k on, of the next listed snapshot the `if` of the loop
\* accepts; 0 when there is none.
NextEc2Eligible(listed, k) ==
    LET S == {j \in k..Len(listed) :
                CleanupEligible(listed[j].StartTime, listed[j].Tags)}
    IN IF S = {} THEN 0 ELSE CHOOSE j \in S : \A m \in S : j <= m

NextRdsEligible(listed, k) ==
    LET S == {j \in k..Len(listed) :
                CleanupEligible(listed[j].SnapshotCreateTime, listed[j].TagList)}
    IN IF S = {} THEN 0 ELSE CHOOSE j \in S : \A m \in S : j <= m

\* Both instances enter cleanup_old_backups.
BeginCleanups ==
    /\ Idle
    /\ RunsIdle
    /\ runs' = [i \in Instances |-> [NoRun EXCEPT !.pc = "describe_snapshots"]]
    /\ UNCHANGED <<now, config, inventory, ec2_snapshots, next_id, rds_snapshots,
                   backup_bucket, calls, result>>

\* snapshots = self.ec2.describe_snapshots(OwnerIds=['self'])
RunDescribeSnapshots(i) ==
    /\ runs[i].pc = "describe_snapshots"
    /\ LET listed == DescribeSnapshots(ec2_snapshots, {}).Snapshots
       IN runs' = [runs EXCEPT ![i].listed = listed, ![i].k = 1,
                               ![i].pc = IF NextEc2Eligible(listed, 1) = 0
                                         THEN "describe_db_snapshots"
                                         ELSE "delete_snapshot"]
    /\ UNCHANGED <<now, config, inventory, ec2_snapshots, next_id, rds_snapshots,
                   backup_bucket, calls, result>>

\* self.ec2.delete_snapshot(SnapshotId=...) and the counter after it.
RunDeleteSnapshot(i) ==
    /\ runs[i].pc = "delete_snapshot"
    /\ LET j == NextEc2Eligible(runs[i].listed, runs[i].k)
           id == runs[i].listed[j].SnapshotId
       IN IF id \in SnapshotIds
          THEN /\ ec2_snapshots' = SelectSeq(ec2_snapshots, LAMBDA x : x.SnapshotId # id)
               /\ runs' = [runs EXCEPT
                             ![i].ec2_deleted = Append(@, id),
                             ![i].k = j + 1,
                             ![i].pc = IF NextEc2Eligible(runs[i].listed, j + 1) = 0
                                       THEN "describe_db_snapshots"
                                       ELSE "delete_snapshot"]
          ELSE /\ runs' = [runs EXCEPT ![i].pc = "done"]
               /\ UNCHANGED ec2_snapshots
    /\ UNCHANGED <<now, config, inventory, next_id, rds_snapshots,
                   backup_bucket, calls, result>>

\* rds_snapshots = self.rds.describe_db_snapshots(SnapshotType='manual')
RunDescribeDbSnapshots(i) ==
    /\ runs[i].pc = "describe_db_snapshots"
    /\ LET listed == DescribeDbSnapshots(rds_snapshots, {}).DBSnapshots
       IN runs' = [runs EXCEPT ![i].listed = listed, ![i].k = 1,
                               ![i].pc = IF NextRdsEligible(listed, 1) = 0
                                         THEN "done"
                                         ELSE "delete_db_snapshot"]
    /\ UNCHANGED <<now, config, inventory, ec2_snapshots, next_id, rds_snapshots,
                   backup_bucket, calls, result>>

\* self.rds.delete_db_snapshot(DBSnapshotIdentifier=...) and the counter.
RunDeleteDbSnapshot(i) ==
    /\ runs[i].pc = "delete_db_snapshot"
    /\ LET j == NextRdsEligible(runs[i].listed, runs[i].k)
           id == runs[i].listed[j].DBSnapshotIdentifier
       IN IF id \in DbSnapshotIds
          THEN /\ rds_snapshots' = SelectSeq(rds_snapshots,
                                             LAMBDA x : x.DBSnapshotIdentifier # id)
               /\ runs' = [runs EXCEPT
                             ![i].rds_deleted = Append(@, id),
                             ![i].k = j + 1,
                             ![i].pc = IF NextRdsEligible(runs[i].listed, j + 1) = 0
                                       THEN "done"
                                       ELSE "delete_db_snapshot"]
          ELSE /\ runs' = [runs EXCEPT ![i].pc = "done"]
               /\ UNCHANGED rds_snapshots
    /\ UNCHANGED <<now, config, inventory, ec2_snapshots, next_id,
                   backup_bucket, calls, result>>

\* Both runs have returned their results and the callers drop them.
ReturnCleanups ==
    /\ RunsDone
    /\ runs' = [i \in Instances |-> NoRun]
    /\ UNCHANGED <<now, config, inventory, ec2_snapshots, next_id, rds_snapshots,
                   backup_bucket, calls, result>>

(***************************************************************************)
(* Reading a returned outcome and the call log.                            *)
(***************************************************************************)
CategoryBackups == {"backup_ec2_instances", "backup_rds_databases", "backup_s3_buckets"}

\* The key under which a record of each category names its resource.
IdKey(op) ==
    CASE op = "backup_ec2_instances" -> "instance_id"
      [] op = "backup_rds_databases" -> "db_identifier"
      [] OTHER -> "bucket_name"

CreationApis == {"create_snapshot", "create_db_snapshot", "copy_object"}
ListingApis == {"describe_instances", "list_buckets"}

IsListingCall(c) ==
    \/ c.api \in ListingApis
    \/ c.api = "describe_db_instances" /\ c.target = "all"

\* The records of a sequence that name resource x.
Naming(records, key, x) ==
    SelectSeq(records, LAMBDA r : key \in DOMAIN r /\ r[key] = x)

\* A record without a resource id: the outcome of a batch-level failure.
IsBatchRecord(r) == DOMAIN r = {"error"}
BatchFailure(results) ==
    \E k \in 1..Len(results.failed) : IsBatchRecord(results.failed[k])

\* The resources a category backup considered: the entries of the target
\* list the caller gave or, without one, what discovery returned.
Considered(op, args) ==
    CASE op = "backup_ec2_instances" ->
            [k \in 1..Len(DescribeInstances(args, {}).Instances) |->
                DescribeInstances(args, {}).Instances[k].InstanceId]
      [] op = "backup_rds_databases" ->
            IF Truthy(args) THEN args.value
            ELSE [k \in 1..Len(DescribeDbInstances({}).DBInstances) |->
                    DescribeDbInstances({}).DBInstances[k].DBInstanceIdentifier]
      [] OTHER ->
            IF Truthy(args) THEN args.value
            ELSE [k \in 1..Len(s3_buckets) |-> s3_buckets[k].Name]

Count(seq, x) == Len(SelectSeq(seq, LAMBDA y : y = x))

(***************************************************************************)
(* C1                                                                      *)
(***************************************************************************)
\* C1 (as stated): after a category backup, len(success) + len(failed) is at
\* most the number of resources considered, and unless the call ended in a
\* batch-level failure every considered resource appears in exactly one of
\* the two lists.
C1_Original ==
    result.op \in CategoryBackups =>
        LET res == result.value
            key == IdKey(result.op)
            considered == Considered(result.op, result.args)
        IN /\ Len(res.success) + Len(res.failed) <= Len(considered)
           /\ ~BatchFailure(res) =>
                \A x \in Range(considered) :
                    (Len(Naming(res.success, key, x)) > 0)
                        # (Len(Naming(res.failed, key, x)) > 0)

\* The volumes of instance x for which the outcome holds a success record.
SuccessVolumes(res, x) ==
    LET recs == Naming(res.success, "instance_id", x)
    IN [k \in 1..Len(recs) |-> recs[k].volume_id]

VolumesOf(x) ==
    LET i == CHOOSE k \in 1..Len(ec2_instances) : ec2_instances[k].InstanceId = x
    IN ec2_instances[i].BlockDeviceMappings

\* C1 (amended): a batch-level failure outcome has no success record and
\* exactly one failure record.  Otherwise, for databases and buckets every
\* entry considered yields exactly one record, in success or in failed, so
\* len(success) + len(failed) equals the number of entries considered; for
\* instances success holds one record per snapshot created: an instance has
\* at most one failure record, its success records are those of its volumes
\* before the failing one, or of all its volumes when it has no failure record,
\* and no record names an instance that was not considered.
C1_Amended ==
    result.op \in CategoryBackups =>
        LET res == result.value
            key == IdKey(result.op)
            considered == Considered(result.op, result.args)
            named == {r[key] : r \in {q \in Range(res.success) \cup Range(res.failed) :
                                          key \in DOMAIN q}}
        IN IF BatchFailure(res)
           THEN res.success = <<>> /\ Len(res.failed) = 1
           ELSE /\ named \subseteq Range(considered)
                /\ IF result.op = "backup_ec2_instances"
                   THEN \A x \in Range(considered) :
                          LET failures == Len(Naming(res.failed, key, x))
                              done == SuccessVolumes(res, x)
                          IN /\ failures <= 1
                             /\ Len(done) <= Len(VolumesOf(x))
                             /\ done = SubSeq(VolumesOf(x), 1, Len(done))
                             /\ (failures = 0) = (Len(done) = Len(VolumesOf(x)))
                   ELSE /\ Len(res.success) + Len(res.failed) = Len(considered)
                        /\ \A x \in Range(considered) :
                              Len(Naming(res.success, key, x))
                                + Len(Naming(res.failed, key, x)) = Count(considered, x)

\* Witness for C1: an instance backup left one instance in both lists -- a
\* snapshot of its first volume succeeded and the one of its second failed.
C1_Witness ==
    /\ result.op = "backup_ec2_instances"
    /\ Len(Naming(result.value.success, "instance_id", "i1")) = 1
    /\ Len(Naming(result.value.failed, "instance_id", "i1")) = 1

(***************************************************************************)
(* C2                                                                      *)
(***************************************************************************)
\* The faults injected into an operation, read off its call log.
InjectedFaults(log) ==
    {<<c.api, c.target>> :
        c \in {d \in Range(log) : d.error # NoError /\ d.error[1] = "ClientError"}}

\* The outcome of a category backup on the current provider state.
RunBackup(op, args, F) ==
    CASE op = "backup_ec2_instances" -> backup_ec2_instances(args, F).results
      [] op = "backup_rds_databases" -> backup_rds_databases(args, F).results
      [] OTHER -> backup_s3_buckets(args, F).results

\* The resource whose backup-creation call the fault f hits.
ResourceOfFault(op, f) ==
    CASE op = "backup_ec2_instances" ->
            (CHOOSE i \in Range(ec2_instances) :
                f[2] \in Range(i.BlockDeviceMappings)).InstanceId
      [] op = "backup_rds_databases" -> f[2]
      [] OTHER -> f[2][1]

\* A record without the artifact id the provider assigned.
SourceOnly(r) ==
    IF "volume_id" \in DOMAIN r
    THEN [instance_id |-> r.instance_id, volume_id |-> r.volume_id]
    ELSE r

\* The records of an outcome that name a resource other than x.
SiblingRecords(res, key, x) ==
    LET other(r) == key \in DOMAIN r /\ r[key] # x
        s1 == SelectSeq(res.success, other)
    IN [success |-> [k \in 1..Len(s1) |-> SourceOnly(s1[k])],
        failed |-> SelectSeq(res.failed, other)]

\* C2: in a category backup, a backup-creation call that fails for one
\* resource adds a failure record naming it, and the records of every other
\* resource are what they are when that call does not fail.
C2_FailureIsolated ==
    [][(Idle /\ result'.op \in CategoryBackups) =>
        \A f \in InjectedFaults(calls') :
            f[1] \in CreationApis =>
                LET op == result'.op
                    key == IdKey(op)
                    x == ResourceOfFault(op, f)
                    without == RunBackup(op, result'.args, InjectedFaults(calls') \ {f})
                IN /\ Len(Naming(result'.value.failed, key, x)) > 0
                   /\ SiblingRecords(result'.value, key, x)
                        = SiblingRecords(without, key, x)]_vars

\* Witness for C2: the creation call failed for the first database of the
\* list and the snapshot of the one after it was created.
C2_Witness ==
    /\ result.op = "backup_rds_databases"
    /\ result.args = ListArg(<<"db1", "db3">>)
    /\ Len(Naming(result.value.failed, "db_identifier", "db1")) = 1
    /\ Len(Naming(result.value.success, "db_identifier", "db3")) = 1
    /\ <<"create_db_snapshot", "db1">> \in InjectedFaults(calls)

(***************************************************************************)
(* C3                                                                      *)
(***************************************************************************)
\* C3: when the discovery/listing call of a category backup fails, the
\* outcome has no success record and exactly one failure record, which holds
\* an error and no resource id, and no backup-creation call was issued.
C3_ListingFailure ==
    (/\ result.op \in CategoryBackups
     /\ \E c \in Range(calls) : IsListingCall(c) /\ c.error # NoError)
    => /\ result.value.success = <<>>
       /\ Len(result.value.failed) = 1
       /\ DOMAIN result.value.failed[1] = {"error"}
       /\ result.value.failed[1].error # NoError
       /\ \A c \in Range(calls) : c.api \notin CreationApis

\* Witness for C3: list_buckets failed after the backup bucket was found or
\* made.
C3_Witness ==
    /\ result.op = "backup_s3_buckets"
    /\ \E c \in Range(calls) : c.api = "list_buckets" /\ c.error # NoError

(***************************************************************************)
(* C4                                                                      *)
(***************************************************************************)
\* The operations run_full_backup entered and left, in order.
Invocations(log) == SelectSeq(log, LAMBDA c : c.api \in {"invoke", "return"})

InOrderOnce ==
    LET step(api, name) == Call(api, name, name, NoError)
    IN <<step("invoke", "backup_ec2_instances"), step("return", "backup_ec2_instances"),
         step("invoke", "backup_rds_databases"), step("return", "backup_rds_databases"),
         step("invoke", "backup_s3_buckets"), step("return", "backup_s3_buckets"),
         step("invoke", "cleanup_old_backups"), step("return", "cleanup_old_backups")>>

ConsolidatedPublishes(log) ==
    SelectSeq(log, LAMBDA c : c.api = "publish"
                              /\ c.target = "Full Backup Pipeline Complete")

\* C4 (as stated): run_full_backup invokes the instance backup, the database
\* backup, the object-store backup and the cleanup exactly once each, in that
\* order, whatever their outcomes, and publishes exactly one consolidated
\* notification after all four have returned.
C4_Original ==
    result.op = "run_full_backup" =>
        /\ Invocations(calls) = InOrderOnce
        /\ Len(ConsolidatedPublishes(calls)) = 1
        /\ calls[Len(calls)].target = "Full Backup Pipeline Complete"

\* C4 (amended): run_full_backup invokes the four operations exactly once
\* each, in that order, whatever their outcomes; when a notification
\* destination is configured it publishes exactly one consolidated
\* notification, after all four have returned, and when none is configured it
\* publishes none.
C4_Amended ==
    result.op = "run_full_backup" =>
        /\ Invocations(calls) = InOrderOnce
        /\ IF sns_topic_arn
           THEN /\ Len(ConsolidatedPublishes(calls)) = 1
                /\ calls[Len(calls)].api = "publish"
                /\ calls[Len(calls)].target = "Full Backup Pipeline Complete"
           ELSE \A c \in Range(calls) : c.api # "publish"

\* Witness for C4: with a destination configured, the instance category
\* failed as a whole and the pipeline went on to publish its notification.
C4_Witness ==
    /\ result.op = "run_full_backup"
    /\ sns_topic_arn
    /\ BatchFailure(result.value.ec2_results)
    /\ Len(result.value.rds_results.success) = 1
    /\ Len(ConsolidatedPublishes(calls)) = 1

(***************************************************************************)
(* C5                                                                      *)
(***************************************************************************)
\* C5: in the result of run_full_backup the two totals are the sums of the
\* three categories' success and failed list lengths, and backup_status is
\* PARTIAL_FAILURE exactly when total_failed_backups > 0, otherwise SUCCESS.
C5_SummaryTotals ==
    result.op = "run_full_backup" =>
        LET v == result.value
        IN /\ v.summary.total_successful_backups
                = Len(v.ec2_results.success) + Len(v.rds_results.success)
                  + Len(v.s3_results.success)
           /\ v.summary.total_failed_backups
                = Len(v.ec2_results.failed) + Len(v.rds_results.failed)
                  + Len(v.s3_results.failed)
           /\ v.summary.backup_status \in {"SUCCESS", "PARTIAL_FAILURE"}
           /\ (v.summary.backup_status = "PARTIAL_FAILURE")
                = (v.summary.total_failed_backups > 0)

\* Witness for C5: a pipeline run with two successes and one failure.
C5_Witness ==
    /\ result.op = "run_full_backup"
    /\ result.value.summary.total_successful_backups = 2
    /\ result.value.summary.total_failed_backups = 1
    /\ result.value.summary.backup_status = "PARTIAL_FAILURE"

(***************************************************************************)
(* C6                                                                      *)
(***************************************************************************)
\* The tags given in a creation call.
TagsOfCall(c) == IF c.api = "copy_object" THEN c.args.Tagging ELSE c.args.Tags

\* C6 (as stated): every artifact a backup operation creates -- volume
\* snapshot, database snapshot, object copied into the backup bucket -- is
\* created by a call that passes the tag AutomatedBackup=true, and carries it.
C6_Original ==
    /\ \A c \in Range(calls) :
          c.api \in CreationApis => HasAutomatedBackupTag(TagsOfCall(c))
    /\ \A o \in backup_bucket.objects : HasAutomatedBackupTag(o.Tags)

(***************************************************************************)
(* C7                                                                      *)
(***************************************************************************)
\* What the claim calls eligible: the backup tag and a creation time, as the
\* provider reports it, strictly before now - retention_days.
TaggedAndExpired(created_at, tags) ==
    /\ "AutomatedBackup" \in DOMAIN tags
    /\ tags["AutomatedBackup"] = "true"
    /\ created_at < now - retention_days

\* C7 (as stated): cleanup_old_backups deletes a snapshot, of an instance
\* volume or of a database, only if it carries AutomatedBackup=true and was
\* created strictly before now - retention_days, whatever its BackupDate tag
\* says; and in a run without provider failure every such snapshot is deleted
\* and each count is the number of deletions made in its category.
C7_Original ==
    [][(Idle /\ result'.op = "cleanup_old_backups") =>
        LET gone == {x \in Range(ec2_snapshots) : x \notin Range(ec2_snapshots')}
            db_gone == {x \in Range(rds_snapshots) : x \notin Range(rds_snapshots')}
        IN /\ \A x \in gone : TaggedAndExpired(x.StartTime, x.Tags)
           /\ \A x \in db_gone : TaggedAndExpired(x.SnapshotCreateTime, x.TagList)
           /\ (\A c \in Range(calls') : c.error = NoError) =>
                /\ \A x \in Range(ec2_snapshots) :
                      TaggedAndExpired(x.StartTime, x.Tags) => x \in gone
                /\ \A x \in Range(rds_snapshots) :
                      TaggedAndExpired(x.SnapshotCreateTime, x.TagList) => x \in db_gone
                /\ result'.value.ec2_snapshots_deleted = Cardinality(gone)
                /\ result'.value.rds_snapshots_deleted = Cardinality(db_gone)]_vars

(***************************************************************************)
(* C8                                                                      *)
(***************************************************************************)
\* C8 (as stated): once a cleanup run has completed without provider
\* failure, running cleanup again before anything else crosses the cutoff
\* issues no delete call and returns 0 for every count.
C8_Original ==
    (/\ result.op = "cleanup_old_backups"
     /\ \A c \in Range(calls) : c.error = NoError)
    => LET again == cleanup_old_backups(ec2_snapshots, rds_snapshots, {})
       IN /\ \A c \in Range(again.calls) :
                c.api \notin {"delete_snapshot", "delete_db_snapshot"}
          /\ again.results = [ec2_snapshots_deleted |-> 0,
                              rds_snapshots_deleted |-> 0,
                              s3_objects_deleted |-> 0]

(***************************************************************************)
(* C9                                                                      *)
(***************************************************************************)
BackupManagerOperations ==
    CategoryBackups \cup {"cleanup_old_backups", "run_full_backup"}

RestoreManagerOperations ==
    {"restore_ec2_from_snapshot", "restore_rds_from_snapshot", "restore_s3_objects",
     "list_available_backups", "validate_backup_integrity"}

\* What each operation hands back when it returns: the keys of its record.
IsStructured(op, value) ==
    CASE op \in CategoryBackups -> DOMAIN value = {"success", "failed"}
      [] op = "cleanup_old_backups" ->
            DOMAIN value = {"ec2_snapshots_deleted", "rds_snapshots_deleted",
                            "s3_objects_deleted"}
      [] op = "run_full_backup" ->
            DOMAIN value = {"ec2_results", "rds_results", "s3_results",
                            "cleanup_results", "summary"}
      [] op = "validate_backup_integrity" -> "valid" \in DOMAIN value
      [] OTHER -> "success" \in DOMAIN value

\* C9: whatever provider calls fail, every public operation of BackupManager
\* and of RestoreManager returns a structured result and raises nothing to
\* its caller.
C9_NeverRaises ==
    result.op \in BackupManagerOperations \cup RestoreManagerOperations =>
        /\ ~result.raised
        /\ IsStructured(result.op, result.value)

\* Witness for C9: a restore whose provider call failed after the machine
\* image was registered returned a failure record.
C9_Witness ==
    /\ result.op = "restore_ec2_from_snapshot"
    /\ \E c \in Range(calls) : c.api = "run_instances" /\ c.error # NoError
    /\ ~result.raised
    /\ result.value.success = FALSE

(***************************************************************************)
(* C10                                                                     *)
(***************************************************************************)
PublishCalls(log) == SelectSeq(log, LAMBDA c : c.api = "publish")

\* C10 (as stated): with a topic configured, every invocation of a category
\* backup issues exactly one publish call, as its last provider call, whose
\* counts are the lengths of the success and failed lists it returns.
C10_Original ==
    (result.op \in CategoryBackups /\ sns_topic_arn) =>
        /\ Len(PublishCalls(calls)) = 1
        /\ calls[Len(calls)].api = "publish"
        /\ calls[Len(calls)].args.successful = Len(result.value.success)
        /\ calls[Len(calls)].args.failed = Len(result.value.failed)

(***************************************************************************)
(* C11                                                                     *)
(***************************************************************************)
NotifyingOperations == CategoryBackups \cup {"run_full_backup"}

PublishFaults(log) == {f \in InjectedFaults(log) : f[1] = "publish"}

\* The value an operation returns on the current provider state.
RunOperation(op, args, F) ==
    IF op = "run_full_backup" THEN run_full_backup(F).results
    ELSE RunBackup(op, args, F)

\* C11: when a publish call fails inside a category backup or the full run,
\* the operation does not raise and returns the value it returns, on the
\* same provider state and with the same other failures, when every publish
\* succeeds; so no failure record stands for the publish failure.
C11_PublishFailureHidden ==
    [][(Idle /\ result'.op \in NotifyingOperations
             /\ PublishFaults(calls') # {}) =>
        /\ ~result'.raised
        /\ result'.value = RunOperation(result'.op, result'.args,
                               InjectedFaults(calls') \ PublishFaults(calls'))]_vars

\* Witness for C11: a database backup created a snapshot and its
\* notification failed to publish.
C11_Witness ==
    /\ result.op = "backup_rds_databases"
    /\ PublishFaults(calls) # {}
    /\ Len(result.value.success) = 1
    /\ result.value.failed = <<>>

(***************************************************************************)
(* C12                                                                     *)
(***************************************************************************)
\* The ids of the snapshots of a store that carry AutomatedBackup=true.
TaggedSnapshotIds ==
    {x.SnapshotId : x \in {y \in Range(ec2_snapshots) : HasAutomatedBackupTag(y.Tags)}}

TaggedDbSnapshotIds ==
    {x.DBSnapshotIdentifier :
        x \in {y \in Range(rds_snapshots) : HasAutomatedBackupTag(y.TagList)}}

\* A listing names each id of the set once and nothing else, newest first.
ListsExactly(entries, ids, key) ==
    /\ {entries[k].snapshot_id : k \in 1..Len(entries)} = ids
    /\ Len(entries) = Cardinality(ids)
    /\ \A k \in 1..Len(entries) - 1 : entries[k][key] >= entries[k + 1][key]

\* C12 (as stated): a listing that succeeds returns, for the instance and the
\* database category, exactly the snapshots carrying AutomatedBackup=true,
\* each once, ordered by creation time newest first.
C12_Original ==
    (result.op = "list_available_backups" /\ result.value.success) =>
        LET backups == result.value.backups
        IN /\ "ec2" \in DOMAIN backups =>
                ListsExactly(backups["ec2"], TaggedSnapshotIds, "start_time")
           /\ "rds" \in DOMAIN backups =>
                ListsExactly(backups["rds"], TaggedDbSnapshotIds, "snapshot_create_time")

(***************************************************************************)
(* C13                                                                     *)
(***************************************************************************)
\* The snapshots the provider holds under an id.
SnapshotsNamed(id) == {x \in Range(ec2_snapshots) : x.SnapshotId = id}
DbSnapshotsNamed(id) == {x \in Range(rds_snapshots) : x.DBSnapshotIdentifier = id}

\* The provider answered the lookup of the validation.
LookupAnswered(log) == Len(log) = 1 /\ log[1].error = NoError

\* C13: validate_backup_integrity('ec2', id) returns valid = true exactly
\* when the provider reports the snapshot and its state is 'completed', and
\* validate_backup_integrity('rds', id) exactly when it reports the snapshot
\* and its status is 'available'; the call changes nothing at the provider.
C13_ValidIffReady ==
    [][(Idle /\ result'.op = "validate_backup_integrity") =>
        LET backup_type == result'.args[1]
            backup_id == result'.args[2]
        IN /\ UNCHANGED <<ec2_snapshots, rds_snapshots, backup_bucket, ec2_images,
                          ec2_instances, rds_instances, s3_buckets>>
           /\ backup_type = "ec2" =>
                result'.value.valid =
                    (/\ LookupAnswered(calls')
                     /\ \E x \in SnapshotsNamed(backup_id) : x.State = "completed")
           /\ backup_type = "rds" =>
                result'.value.valid =
                    (/\ LookupAnswered(calls')
                     /\ \E x \in DbSnapshotsNamed(backup_id) : x.Status = "available")]_vars

\* Witness for C13: a snapshot the provider had completed was validated and
\* found valid.
C13_Witness ==
    /\ result.op = "validate_backup_integrity"
    /\ result.args[1] = "ec2"
    /\ result.value.valid
    /\ \E x \in SnapshotsNamed(result.args[2]) : x.State = "completed"

C15_Original ==
    (result.op = "validate_backup_integrity" /\ result.value.valid) =>
        IF result.args[1] = "ec2"
        THEN \A x \in SnapshotsNamed(result.args[2]) : HasAutomatedBackupTag(x.Tags)
        ELSE \A x \in DbSnapshotsNamed(result.args[2]) : HasAutomatedBackupTag(x.TagList)

(***************************************************************************)
(* C16                                                                     *)
(***************************************************************************)
CopyCalls(log) == SelectSeq(log, LAMBDA c : c.api = "copy_object")

ListingAnswered(log) ==
    \A k \in 1..Len(log) : log[k].api = "list_objects_v2" => log[k].error = NoError

\* The objects of the backup bucket whose key starts with the prefix.
MatchingObjects(prefix) ==
    {o.Key : o \in {b \in backup_bucket.objects : StartsWith(b.Key, prefix)}}

\* C16: a restore from the backup bucket whose listing the provider answers
\* issues exactly one copy call for every object under the prefix, on
\* whatever page it is, whether or not earlier copies failed, and returns
\* restored_objects = the number of copies that succeeded and failed_objects
\* = the number that failed, which add up to the number of matching objects.
C16_RestoreCounts ==
    (/\ result.op = "restore_s3_objects"
     /\ result.args[1] = BackupBucketName
     /\ ListingAnswered(calls)) =>
        LET copies == CopyCalls(calls)
            matching == MatchingObjects(result.args[2])
            ok == SelectSeq(copies, LAMBDA c : c.error = NoError)
        IN /\ Len(copies) = Cardinality(matching)
           /\ {copies[k].target : k \in 1..Len(copies)}
                = {<<BackupBucketName, key>> : key \in matching}
           /\ result.value.success
           /\ result.value.restored_objects = Len(ok)
           /\ result.value.failed_objects = Len(copies) - Len(ok)
           /\ result.value.restored_objects + result.value.failed_objects
                = Cardinality(matching)

\* Witness for C16: three objects on two pages, the first copy failed and
\* the two after it succeeded.
C16_Witness ==
    /\ result.op = "restore_s3_objects"
    /\ result.args[1] = BackupBucketName
    /\ Cardinality(MatchingObjects(result.args[2])) = 3
    /\ Len(CopyCalls(calls)) = 3
    /\ CopyCalls(calls)[1].error # NoError
    /\ result.value.success
    /\ result.value.restored_objects = 2
    /\ result.value.failed_objects = 1

(***************************************************************************)
(* C17                                                                     *)
(***************************************************************************)
\* A category backup on the current provider state: [results, calls, raised].
RunCategory(op, args, F) ==
    LET r == CASE op = "backup_ec2_instances" -> backup_ec2_instances(args, F)
               [] op = "backup_rds_databases" -> backup_rds_databases(args, F)
               [] OTHER -> backup_s3_buckets(args, F)
    IN [results |-> r.results, calls |-> r.calls, raised |-> r.raised]

EmptyList == ListArg(<<>>)

C18_Original ==
    (result.op \in CategoryBackups /\ result.args = EmptyList) =>
        /\ \A c \in Range(calls) : c.api \notin CreationApis
        /\ result.value.success = <<>>
        /\ result.value.failed = <<>>

(***************************************************************************)
(* C19                                                                     *)
(***************************************************************************)
NoCallFailed(log) == \A k \in 1..Len(log) : log[k].error = NoError

\* The resources discovery is to find: the running instances, every
\* database instance, every bucket but the backup bucket.
Discoverable(op) ==
    CASE op = "backup_ec2_instances" ->
            {i.InstanceId : i \in {j \in Range(ec2_instances) : j.State = "running"}}
      [] op = "backup_rds_databases" -> KnownDbIds
      [] OTHER -> KnownBucketNames \ {BackupBucketName}

\* C19 (as stated, for backups): a category backup that discovers its
\* targets and meets no provider failure backs up every resource the
\* provider holds, on whatever page of the listing it is.
C19_Original ==
    (/\ result.op \in CategoryBackups
     /\ ~Truthy(result.args)
     /\ NoCallFailed(calls)) =>
        \A x \in Discoverable(result.op) :
            Len(Naming(result.value.success, IdKey(result.op), x)) > 0

(***************************************************************************)
(* C20                                                                     *)
(***************************************************************************)
\* The ids whose delete call, of the given api, failed.
FailedDeletes(log, api) ==
    {c.target : c \in {d \in Range(log) : d.api = api /\ d.error # NoError}}

\* C20 (as stated): after a cleanup run in which a delete call failed, the
\* only snapshots left that carry the backup tag and are older than the
\* cutoff are those whose own delete call failed.
C20_Original ==
    (/\ result.op = "cleanup_old_backups"
     /\ FailedDeletes(calls, "delete_snapshot")
            \cup FailedDeletes(calls, "delete_db_snapshot") # {}) =>
        /\ \A x \in Range(ec2_snapshots) :
              TaggedAndExpired(x.StartTime, x.Tags) =>
                  x.SnapshotId \in FailedDeletes(calls, "delete_snapshot")
        /\ \A x \in Range(rds_snapshots) :
              TaggedAndExpired(x.SnapshotCreateTime, x.TagList) =>
                  x.DBSnapshotIdentifier \in FailedDeletes(calls, "delete_db_snapshot")

(***************************************************************************)
(* C21                                                                     *)
(***************************************************************************)
ObjectDeleteApis == {"delete_object", "delete_objects", "delete_bucket"}

ObjectKeys(bucket) == {o.Key : o \in bucket.objects}

\* C21: an operation of BackupManager issues no object-delete call and
\* leaves every object of the backup bucket and of the source buckets in
\* place; the s3_objects_deleted count of a cleanup, run on its own or in
\* the full pipeline, is 0.
C21_NoObjectDeleted ==
    [][(Idle /\ result'.op \in BackupManagerOperations) =>
        /\ \A c \in Range(calls') : c.api \notin ObjectDeleteApis
        /\ ObjectKeys(backup_bucket) \subseteq ObjectKeys(backup_bucket')
        /\ (backup_bucket.exists => backup_bucket'.exists)
        /\ s3_buckets' = s3_buckets
        /\ (result'.op = "cleanup_old_backups" =>
                result'.value.s3_objects_deleted = 0)
        /\ (result'.op = "run_full_backup" =>
                result'.value.cleanup_results.s3_objects_deleted = 0)]_vars

\* Witness for C21: a cleanup deleted a snapshot while the backup bucket
\* held a copy older than the retention window, and reported no object
\* deleted.
C21_Witness ==
    /\ result.op = "cleanup_old_backups"
    /\ result.value.ec2_snapshots_deleted + result.value.rds_snapshots_deleted > 0
    /\ result.value.s3_objects_deleted = 0
    /\ \E o \in backup_bucket.objects : o.Key[3] = ToString(0)
    /\ 0 < now - retention_days

(***************************************************************************)
(* C22                                                                     *)
(***************************************************************************)
\* C22 (as stated): when two instances have run cleanup at the same time
\* and both have returned, no snapshot that carries the backup tag and is
\* older than the cutoff is left in either category, and the deletion
\* counts of the two runs add up to the number of snapshots deleted, so
\* none is counted twice.
C22_Original ==
    RunsDone =>
        /\ \A x \in Range(ec2_snapshots) : ~TaggedAndExpired(x.StartTime, x.Tags)
        /\ \A x \in Range(rds_snapshots) :
              ~TaggedAndExpired(x.SnapshotCreateTime, x.TagList)
        /\ Len(runs["A"].ec2_deleted) + Len(runs["B"].ec2_deleted)
              = Cardinality(UNION {Range(runs[i].ec2_deleted) : i \in Instances})
        /\ Len(runs["A"].rds_deleted) + Len(runs["B"].rds_deleted)
              = Cardinality(UNION {Range(runs[i].rds_deleted) : i \in Instances})

(***************************************************************************)
(* C23                                                                     *)
(***************************************************************************)
\* What the one operation an event asks for returns and calls, on the
\* current provider state under the failures F.
AskedRun(event, F) ==
    CASE event = ListArg("ec2") -> RunCategory("backup_ec2_instances", NoneArg, F)
      [] event = ListArg("rds") -> RunCategory("backup_rds_databases", NoneArg, F)
      [] event = ListArg("s3") -> RunCategory("backup_s3_buckets", NoneArg, F)
      [] event = ListArg("cleanup") ->
            [results |-> cleanup_old_backups(ec2_snapshots, rds_snapshots, F).results,
             calls |-> cleanup_old_backups(ec2_snapshots, rds_snapshots, F).calls,
             raised |-> cleanup_old_backups(ec2_snapshots, rds_snapshots, F).raised]
      [] OTHER ->
            [results |-> run_full_backup(F).results,
             calls |-> run_full_backup(F).calls,
             raised |-> run_full_backup(F).raised]

\* C23: lambda_handler never raises; once the manager is constructed it
\* issues the provider calls of exactly the one operation its event asks
\* for ('ec2', 'rds', 's3', 'cleanup', else the full pipeline) and returns
\* statusCode 200 with that operation's result, whatever failed inside it;
\* it returns statusCode 500 exactly when an exception escaped, which here
\* is the failure of the manager's construction, and then runs nothing.
C23_Dispatch ==
    [][(Idle /\ result'.op = "lambda_handler") =>
        /\ ~result'.raised
        /\ IF <<"get_caller_identity", "sts">> \in InjectedFaults(calls')
           THEN /\ result'.value.statusCode = 500
                /\ Len(calls') = 1
                /\ <<ec2_snapshots', rds_snapshots', backup_bucket'>>
                      = <<ec2_snapshots, rds_snapshots, backup_bucket>>
           ELSE /\ result'.value.statusCode = 200
                /\ ~AskedRun(result'.args, InjectedFaults(calls')).raised
                /\ result'.value.body
                      = JsonDumps(AskedRun(result'.args, InjectedFaults(calls')).results)
                /\ Tail(calls') = AskedRun(result'.args, InjectedFaults(calls')).calls]_vars

\* Witness for C23: an 'ec2' event whose only backup failed was answered
\* with statusCode 200.
C23_Witness ==
    /\ result.op = "lambda_handler"
    /\ result.args = ListArg("ec2")
    /\ result.value.statusCode = 200
    /\ result.value.body[2].success = <<>>
    /\ result.value.body[2].failed # <<>>

(***************************************************************************)
(* C24                                                                     *)
(***************************************************************************)
\* C24 (as stated): when a category backup is called with explicit ids and
\* the only thing that fails is the lookup of the ids the provider does not
\* know, the result holds a failure record naming each such id, and every
\* other id of the list is named by a success or failure record of its own.
C24_Original ==
    (/\ result.op \in CategoryBackups
     /\ Truthy(result.args)
     /\ InjectedFaults(calls) = {}) =>
        LET key == IdKey(result.op)
            known == CASE result.op = "backup_ec2_instances" -> KnownInstanceIds
                       [] result.op = "backup_rds_databases" -> KnownDbIds
                       [] OTHER -> KnownBucketNames
        IN \A id \in Range(result.args.value) \ known :
              /\ Naming(result.value.failed, key, id) # <<>>
              /\ \A other \in Range(result.args.value) \cap known :
                    \/ Naming(result.value.success, key, other) # <<>>
                    \/ Naming(result.value.failed, key, other) # <<>>

(***************************************************************************)
(* C25                                                                     *)
(***************************************************************************)
BucketSetupApis ==
    {"create_bucket", "put_bucket_versioning", "put_bucket_lifecycle_configuration"}

\* C25 (as stated): a backup_s3_buckets run that starts when the backup
\* bucket exists issues no create-bucket, versioning or lifecycle call, so
\* over any sequence of runs the bucket is created and configured by one
\* run at most.
C25_Original ==
    [][(Idle /\ result'.op = "backup_s3_buckets" /\ backup_bucket.exists) =>
        \A c \in Range(calls') : c.api \notin BucketSetupApis]_vars

(***************************************************************************)
(* C28                                                                     *)
(***************************************************************************)
\* C28 (as stated): whatever backup_s3_buckets runs and provider failures
\* came before, once a run in which no provider call failed has completed,
\* a backup bucket that exists has versioning enabled and the lifecycle
\* rules set: such a run repairs what an earlier failed run left undone.
C28_Original ==
    (/\ result.op = "backup_s3_buckets"
     /\ InjectedFaults(calls) = {}
     /\ backup_bucket.exists) =>
        /\ backup_bucket.versioning
        /\ backup_bucket.lifecycle = LifecycleConfig

(***************************************************************************)
(* C26                                                                     *)
(***************************************************************************)
\* C26: in every call of restore_ec2_from_snapshot, a run_instances call
\* comes after a register_image call that succeeded and after an
\* image_available wait for the image it registered that succeeded; a call
\* that returns success = true issued one run_instances call and added
\* exactly one instance, the one it returns; a call in which a step failed
\* returns exactly {success: false, error, snapshot_id} with the snapshot id
\* it was given and added no instance.
C26_LaunchAfterAvailable ==
    [][(Idle /\ result'.op = "restore_ec2_from_snapshot") =>
        /\ \A k \in 1..Len(calls') :
              calls'[k].api = "run_instances" =>
                 \E i, j \in 1..(k - 1) :
                    /\ i < j
                    /\ calls'[i].api = "register_image" /\ calls'[i].error = NoError
                    /\ calls'[j].api = "image_available" /\ calls'[j].error = NoError
                    /\ calls'[j].args = calls'[k].args.ImageId
                    /\ \E m \in 1..Len(ec2_images') :
                          /\ ec2_images'[m].ImageId = calls'[j].args
                          /\ ec2_images'[m].Name = calls'[i].args
        /\ IF \A k \in 1..Len(calls') : calls'[k].error = NoError
           THEN /\ result'.value.success
                /\ Len(SelectSeq(calls', LAMBDA c : c.api = "run_instances")) = 1
                /\ Len(ec2_instances') = Len(ec2_instances) + 1
                /\ SubSeq(ec2_instances', 1, Len(ec2_instances)) = ec2_instances
                /\ ec2_instances'[Len(ec2_instances')].InstanceId
                      = result'.value.instance_id
           ELSE /\ DOMAIN result'.value = {"success", "error", "snapshot_id"}
                /\ ~result'.value.success
                /\ result'.value.error
                      \in {calls'[k].error : k \in 1..Len(calls')} \ {NoError}
                /\ result'.value.snapshot_id = result'.args
                /\ ec2_instances' = ec2_instances]_vars

\* Witness for C26: a restore returned success and the instance it names
\* was launched from the image it registered.
C26_Witness ==
    /\ result.op = "restore_ec2_from_snapshot"
    /\ result.value.success
    /\ \E k \in 1..Len(ec2_instances) :
          ec2_instances[k].InstanceId = result.value.instance_id
    /\ \E m \in 1..Len(ec2_images) : ec2_images[m].ImageId = result.value.ami_id

(***************************************************************************)
(* C29                                                                     *)
(***************************************************************************)
\* C29 (as stated): a call of restore_ec2_from_snapshot that returns
\* success = false leaves the images of the account as they were before it.
C29_Original ==
    [][(Idle /\ result'.op = "restore_ec2_from_snapshot"
             /\ ~result'.value.success) => ec2_images' = ec2_images]_vars

(***************************************************************************)
(* C27                                                                     *)
(***************************************************************************)
\* C27: in backup_ec2_instances, for every instance that was processed and
\* has a volume whose create_snapshot call failed: the success list names
\* the instance with exactly its volumes before the failed one, in order;
\* no create_snapshot call was issued for its volumes after the failed
\* one; exactly one failure record names the instance; and every other
\* instance of the run had its volumes attempted from the first one on.
C27_PartialInstance ==
    [][(Idle /\ result'.op = "backup_ec2_instances") =>
        LET instances == DescribeInstances(result'.args, {}).Instances
            failed_at(i) == {p \in 1..Len(i.BlockDeviceMappings) :
                               \E c \in Range(calls') :
                                  /\ c.api = "create_snapshot"
                                  /\ c.target = i.BlockDeviceMappings[p]
                                  /\ c.error # NoError}
            attempted(v) == \E c \in Range(calls') :
                               c.api = "create_snapshot" /\ c.target = v
            volumes(i) == LET recs == Naming(result'.value.success, "instance_id",
                                             i.InstanceId)
                          IN [k \in 1..Len(recs) |-> recs[k].volume_id]
        IN \A n \in 1..Len(instances) :
              LET i == instances[n]
              IN failed_at(i) # {} =>
                   \E p \in failed_at(i) :
                      /\ failed_at(i) = {p}
                      /\ volumes(i) = SubSeq(i.BlockDeviceMappings, 1, p - 1)
                      /\ \A q \in (p + 1)..Len(i.BlockDeviceMappings) :
                            ~attempted(i.BlockDeviceMappings[q])
                      /\ Len(Naming(result'.value.failed, "instance_id",
                                    i.InstanceId)) = 1
                      /\ \A m \in 1..Len(instances) :
                            (m # n /\ instances[m].BlockDeviceMappings # <<>>) =>
                               attempted(instances[m].BlockDeviceMappings[1])]_vars

\* Witness for C27: the second volume of i1 failed after the first was
\* snapshotted, and i2 was backed up in the same run.
C27_Witness ==
    /\ result.op = "backup_ec2_instances"
    /\ \E c \in Range(calls) :
          c.api = "create_snapshot" /\ c.target = "v2" /\ c.error # NoError
    /\ Len(Naming(result.value.success, "instance_id", "i1")) = 1
    /\ Len(Naming(result.value.failed, "instance_id", "i1")) = 1
    /\ Len(Naming(result.value.success, "instance_id", "i2")) = 1

(***************************************************************************)
(* C30                                                                     *)
(***************************************************************************)
\* C30 (as stated): when a provider call of the cleanup step of
\* run_full_backup failed (a listing or a delete), the backup_status of the
\* result is PARTIAL_FAILURE.
C30_Original ==
    (/\ result.op = "run_full_backup"
     /\ \E c \in Range(calls) :
           /\ c.api \in {"describe_snapshots", "delete_snapshot",
                         "describe_db_snapshots", "delete_db_snapshot"}
           /\ c.error # NoError) =>
        result.value.summary.backup_status = "PARTIAL_FAILURE"

Next ==
    \/ CreateSnapshotElsewhere
    \/ CreateDbSnapshotElsewhere
    \/ SnapshotsComplete
    \/ RestoreEc2FromSnapshot
    \/ RestoreRdsFromSnapshot
    \/ RestoreS3Objects
    \/ ListAvailableBackups
    \/ ValidateBackupIntegrity
    \/ Tick
    \/ Discard
    \/ BackupEc2Instances
    \/ BackupRdsDatabases
    \/ BackupS3Buckets
    \/ CleanupOldBackups
    \/ RunFullBackup

Spec == Init /\ [][Next]_vars

\* The three category backups, from an empty provider, against an account
\* of one category.
InitBackup ==
    /\ Init
    /\ retention_days = 1
    /\ region = "us-east-1"
    /\ <<ec2_instances, rds_instances, s3_buckets>> # PipelineAccount

NextBackup ==
    \/ Discard
    \/ BackupEc2Instances
    \/ BackupRdsDatabases
    \/ BackupS3Buckets

SpecBackup == InitBackup /\ [][NextBackup]_vars

(***************************************************************************)
(* The full pipeline, run day after day against the account that holds a   *)
(* resource of every category.                                             *)
(***************************************************************************)
InitFull ==
    /\ Init
    /\ region = "us-east-1"
    /\ <<ec2_instances, rds_instances, s3_buckets>> = PipelineAccount

NextFull ==
    \/ Tick
    \/ Discard
    \/ RunFullBackup

SpecFull == InitFull /\ [][NextFull]_vars

(***************************************************************************)
(* Retention cleanup over the days, in an account where snapshots of every *)
(* kind of tagging come into being.                                        *)
(***************************************************************************)
InitCleanup ==
    /\ Init
    /\ ~sns_topic_arn
    /\ region = "us-east-1"
    /\ <<ec2_instances, rds_instances, s3_buckets>> = PipelineAccount

NextCleanup ==
    \/ Tick
    \/ Discard
    \/ CreateSnapshotElsewhere
    \/ CreateDbSnapshotElsewhere
    \/ CleanupOldBackups

SpecCleanup == InitCleanup /\ [][NextCleanup]_vars

(***************************************************************************)
(* Every public operation of both managers, against the small account.     *)
(***************************************************************************)
InitOperations ==
    /\ Init
    /\ sns_topic_arn
    /\ retention_days = 1
    /\ region = "us-east-1"
    /\ <<ec2_instances, rds_instances, s3_buckets>> = PipelineAccount

\* The operation leaves few artifacts at the provider.
FewArtifacts ==
    Artifacts(ec2_snapshots', rds_snapshots', backup_bucket') <= MaxFewArtifacts

NextOperations ==
    \/ Tick
    \/ Discard
    \/ SnapshotsComplete
    \/ (BackupEc2Instances /\ FewArtifacts)
    \/ (BackupRdsDatabases /\ FewArtifacts)
    \/ (BackupS3Buckets /\ FewArtifacts)
    \/ (CleanupOldBackups /\ FewArtifacts)
    \/ (RunFullBackupUnder(MaxFaults) /\ FewArtifacts)
    \/ RestoreEc2FromSnapshot
    \/ RestoreRdsFromSnapshot
    \/ RestoreS3Objects
    \/ ListAvailableBackups
    \/ ValidateBackupIntegrity

SpecOperations == InitOperations /\ [][NextOperations]_vars

(***************************************************************************)
(* Every operation that notifies, with a destination configured.           *)
(***************************************************************************)
NextNotify ==
    \/ Tick
    \/ Discard
    \/ BackupEc2Instances
    \/ BackupRdsDatabases
    \/ BackupS3Buckets
    \/ RunFullBackup

SpecNotify == InitOperations /\ [][NextNotify]_vars

(***************************************************************************)
(* Listing in an account where snapshots of every kind of tagging come     *)
(* into being over the days.                                               *)
(***************************************************************************)
NextListing ==
    \/ Tick
    \/ Discard
    \/ CreateSnapshotElsewhere
    \/ CreateDbSnapshotElsewhere
    \/ ListAvailableBackups

SpecListing == InitCleanup /\ [][NextListing]_vars

(***************************************************************************)
(* Validation in an account where snapshots of every kind of tagging come  *)
(* into being and complete.                                                *)
(***************************************************************************)
NextValidate ==
    \/ Discard
    \/ CreateSnapshotElsewhere
    \/ CreateDbSnapshotElsewhere
    \/ SnapshotsComplete
    \/ ValidateBackupIntegrity

SpecValidate == InitCleanup /\ [][NextValidate]_vars

(***************************************************************************)
(* Object restore from a backup bucket that bucket backups fill.           *)
(***************************************************************************)
InitRestoreS3 ==
    /\ Init
    /\ ~sns_topic_arn
    /\ retention_days = 1
    /\ region = "us-east-1"
    /\ <<ec2_instances, rds_instances, s3_buckets>> = <<<<>>, <<>>, Buckets>>

\* No restore has written into the source buckets yet.
NothingRestored == s3_buckets = Buckets

NextRestoreS3 ==
    \/ Discard
    \/ BackupS3Buckets
    \/ (NothingRestored /\ RestoreS3Objects)

SpecRestoreS3 == InitRestoreS3 /\ [][NextRestoreS3]_vars

(***************************************************************************)
(* Every operation of BackupManager over the days.                         *)
(***************************************************************************)
NextRetention ==
    \/ Tick
    \/ Discard
    \/ BackupEc2Instances
    \/ BackupRdsDatabases
    \/ BackupS3Buckets
    \/ CleanupOldBackups
    \/ RunFullBackup

SpecRetention == InitCleanup /\ [][NextRetention]_vars

(***************************************************************************)
(* Two orchestrator instances cleaning up at once, in an account where     *)
(* snapshots of every kind of tagging come into being over the days.       *)
(***************************************************************************)
NextConcurrent ==
    \/ (RunsIdle /\ Tick)
    \/ (RunsIdle /\ CreateSnapshotElsewhere)
    \/ (RunsIdle /\ CreateDbSnapshotElsewhere)
    \/ BeginCleanups
    \/ \E i \in Instances : RunDescribeSnapshots(i)
    \/ \E i \in Instances : RunDeleteSnapshot(i)
    \/ \E i \in Instances : RunDescribeDbSnapshots(i)
    \/ \E i \in Instances : RunDeleteDbSnapshot(i)
    \/ ReturnCleanups

SpecConcurrent == InitCleanup /\ [][NextConcurrent]_vars

(***************************************************************************)
(* The scheduled entry point called day after day.                         *)
(***************************************************************************)
NextLambda ==
    \/ Tick
    \/ Discard
    \/ LambdaHandler

SpecLambda == InitOperations /\ [][NextLambda]_vars

(***************************************************************************)
(* Instance restores from the snapshots the instance backup creates.       *)
(***************************************************************************)
NextRestoreEc2 ==
    \/ Tick
    \/ Discard
    \/ BackupEc2Instances
    \/ SnapshotsComplete
    \/ RestoreEc2FromSnapshot

SpecRestoreEc2 == InitCleanup /\ [][NextRestoreEc2]_vars

====
